---- MODULE Spec2Model ----
(***************************************************************************)
(* The wallet dashboard of examples/react-native/src/screens/              *)
(* WalletScreen.tsx: the balance + history refresh pipeline (fetchBalance, *)
(* fetchTransactions, handleRefresh, the load-on-connect effect) and the   *)
(* transaction classifier inside fetchTransactions.                        *)
(*                                                                         *)
(* JavaScript numbers that hold SOL amounts are modelled in fixed point:   *)
(* a value x is the integer x * NanoPerUnit.  Every amount the code        *)
(* computes is lamports / LAMPORTS_PER_SOL, a multiple of 1e-9, so the     *)
(* representation is exact; the inputs stay away from the half-way cases   *)
(* of toFixed(4), which the binary rounding of the double decides.         *)
(*                                                                         *)
(* An async function is one action per segment between awaits.  A handler  *)
(* reads the state of the render it was created in: a segment that runs    *)
(* after an await keeps the walletAddress it captured (the cycle's addr).  *)
(***************************************************************************)
EXTENDS Integers, Sequences, FiniteSets, Bags, TLC

\* ------------------------------------------------------------- bounds
\* Fetch cycles (effect- or refresh-started) that may be in flight at once.
MaxCycles == 2
\* Length of the signature list the RPC may return in the history runs.
MaxSigs == 3
\* Refresh cycles run one after the other in the repeated-refresh runs.
MaxRefreshes == 2
\* signAndSendTransaction calls made in a run of the Send screen.
MaxSends == 2
\* signMessage calls made in a run of the Sign Message screen.
MaxSignRequests == 2
\* AsyncStorage calls awaiting their result at one time.
MaxStorageCalls == 2

\* ---------------------------------------------------- program constants
LAMPORTS_PER_SOL == 1000000000
\* Fixed-point scale of the model's numbers (units per 1.0).
NanoPerUnit == 1000000000
\* The literal 0.000001 of the dead-zone test, in fixed point.
DeadZone == 1000
\* walletAddress.length < 32 || walletAddress.length > 44
MinAddressLength == 32
MaxAddressLength == 44
\* toFixed(4)
FixedDigits == 4

\* ------------------------------------------------------------ addresses
Addr1 == "7xKXtg2CW87d97TXJSDpbD5jBkheTqA83TZRuJosgAsU"
Addr2 == "4Nd1mBQtrMJVYVfKf2PJy9NZUZdTAsp7D4xWLs4gDB4T"
\* Too short for the length check of fetchBalance.
AddrShort == "7xKXtg2CW87d"
\* Passes the length check, is not base58 (0, O, I, l): new PublicKey throws.
AddrNotKey == "0OIl0OIl0OIl0OIl0OIl0OIl0OIl0OIl0OIl"
OtherKey == "11111111111111111111111111111111"
NoAddress == ""
Addresses == {Addr1, Addr2, AddrShort, AddrNotKey}

\* new PublicKey(s) succeeds
IsPublicKey(s) == s \in {Addr1, Addr2, OtherKey}

\* What useWallet() may report: no wallet (smartWalletPubkey null), or a
\* wallet whose key is not yet known, or a wallet with its key.
SdkStates ==
  {<<FALSE, NoAddress>>} \cup {<<TRUE, a>> : a \in Addresses \cup {NoAddress}}

\* smartWalletPubkey?.toString() || ''
WalletAddressOf(pubkey) == pubkey

\* ------------------------------------------------------ number helpers
Abs(x) == IF x < 0 THEN -x ELSE x

RECURSIVE Pow10(_)
Pow10(k) == IF k = 0 THEN 1 ELSE 10 * Pow10(k - 1)

RECURSIVE PadStart(_, _)
\* String(n).padStart(width, '0')
PadStart(s, width) == IF Len(s) >= width THEN s ELSE PadStart("0" \o s, width)

\* lamports / LAMPORTS_PER_SOL
DivLamports(lamports) == lamports * (NanoPerUnit \div LAMPORTS_PER_SOL)

\* Number.prototype.toFixed(digits): the nearest multiple of 10^-digits (the
\* larger one of two), written with a leading "-" when x < 0.
ToFixed(x, digits) ==
  LET unit   == NanoPerUnit \div Pow10(digits)
      scaled == (Abs(x) + unit \div 2) \div unit
      whole  == scaled \div Pow10(digits)
      frac   == scaled % Pow10(digits)
  IN  (IF x < 0 THEN "-" ELSE "") \o ToString(whole) \o "."
        \o PadStart(ToString(frac), digits)

\* ---------------------------------------------- transaction classifier
\* null / undefined
Null == [isNull |-> TRUE]
\* a rejected RPC call
Throw == [threw |-> TRUE]
NotFound == 0

RECURSIVE FindIndexFrom(_, _, _)
FindIndexFrom(keys, address, i) ==
  IF i > Len(keys) THEN NotFound
  ELSE IF keys[i] = address THEN i
  ELSE FindIndexFrom(keys, address, i + 1)

\* An index search that reads "not found" as the first account.
FindIndexDefaultsToFirst(keys, address) ==
  IF FindIndexFrom(keys, address, 1) = NotFound THEN 1
  ELSE FindIndexFrom(keys, address, 1)

\* staticAccountKeys.findIndex(key => key.toString() === walletAddress),
\* 1-based, NotFound for -1
FindIndex(keys, address) == FindIndexFrom(keys, address, 1)

\* tx.meta?.preBalances?.[accountIndex] || 0
BalanceAt(balances, accountIndex) ==
  IF accountIndex \in DOMAIN balances THEN balances[accountIndex] ELSE 0

\* Math.abs(balanceChange) <= 0.000001
InDeadZoneInclusive(balanceChange) == Abs(balanceChange) <= DeadZone

\* Math.abs(balanceChange) < 0.000001
InDeadZone(balanceChange) == Abs(balanceChange) < DeadZone

\* The chain with a receive branch that starts above the dead zone.
TransactionTypeGap(balanceChange) ==
  IF InDeadZone(balanceChange) THEN "sign"
  ELSE IF balanceChange > DeadZone THEN "receive"
  ELSE IF balanceChange < 0 THEN "send"
  ELSE "other"

\* The if / else-if chain that sets type.
TransactionType(balanceChange) ==
  IF InDeadZone(balanceChange) THEN "sign"
  ELSE IF balanceChange > 0 THEN "receive"
  ELSE IF balanceChange < 0 THEN "send"
  ELSE "other"

TransactionTitle(balanceChange) ==
  IF InDeadZone(balanceChange) THEN "Message Signed"
  ELSE IF balanceChange > 0 THEN "Received SOL"
  ELSE IF balanceChange < 0 THEN "Sent SOL"
  ELSE "Transaction"

\* The amount without the "+" of the receive branch.
TransactionAmountUnsigned(balanceChange) ==
  IF InDeadZone(balanceChange) THEN "No transfer"
  ELSE IF balanceChange # 0
    THEN ToFixed(balanceChange, FixedDigits) \o " SOL"
  ELSE "0 SOL"

TransactionAmount(balanceChange) ==
  IF InDeadZone(balanceChange) THEN "No transfer"
  ELSE IF balanceChange > 0
    THEN "+" \o ToFixed(balanceChange, FixedDigits) \o " SOL"
  ELSE IF balanceChange < 0
    THEN ToFixed(balanceChange, FixedDigits) \o " SOL"
  ELSE "0 SOL"

\* getTransactionIcon: the case of the switch an entry's type selects.
TransactionIconCase(type) ==
  IF type \in {"send", "receive", "sign"} THEN type ELSE "default"

\* new Date(sig.blockTime * 1000).toLocaleDateString(): the day of the block
ToLocaleDateString(blockTime) == "day " \o ToString(blockTime \div 86400)

\* sig.confirmationStatus || 'confirmed'
StatusOf(sig) ==
  IF sig.confirmationStatus = "" THEN "confirmed" ELSE sig.confirmationStatus

\* The body of the per-signature callback once getTransaction has answered
\* with tx (Null for a null answer).
ClassifyTransaction(sig, tx, walletAddress) ==
  IF tx = Null THEN Null
  ELSE
    LET accountIndex == FindIndex(tx.staticAccountKeys, walletAddress) IN
    IF accountIndex = NotFound THEN Null
    ELSE
      LET preBalance    == BalanceAt(tx.preBalances, accountIndex)
          postBalance   == BalanceAt(tx.postBalances, accountIndex)
          balanceChange == DivLamports(postBalance - preBalance)
      IN  [ signature |-> sig.signature,
            type      |-> TransactionType(balanceChange),
            amount    |-> TransactionAmount(balanceChange),
            time      |-> ToLocaleDateString(sig.blockTime),
            status    |-> StatusOf(sig),
            title     |-> TransactionTitle(balanceChange) ]

\* ------------------------------------------------------------ the chain
\* What the devnet RPC holds: the signature records of the wallet, most
\* recent first, and the stored transaction of each signature.
SigName(i) == "S" \o ToString(i)
SigNames == {SigName(i) : i \in 1..MaxSigs}

\* One record of getSignaturesForAddress; confirmationStatus "" is absent.
SigRecord(name) ==
  [ signature          |-> name,
    blockTime          |-> IF name = "S1" THEN 1700000000 ELSE 1700086400,
    confirmationStatus |-> IF name = "S1" THEN "finalized" ELSE "" ]

\* A stored transaction that touches the wallet at account index 1 (the
\* second key) with the given pre and post balance arrays.
TxDetail(keys, pre, post) ==
  [ staticAccountKeys |-> keys, preBalances |-> pre, postBalances |-> post ]

\* Transfers of +0.5 SOL, -0.25 SOL and a fee-free signing transaction.
ReceiveDetail == TxDetail(<<OtherKey, Addr1>>, <<5000, 1000000000>>, <<5000, 1500000000>>)
SendDetail    == TxDetail(<<Addr1, OtherKey>>, <<750000000, 0>>, <<500000000, 250000000>>)
SignDetail    == TxDetail(<<OtherKey, Addr1>>, <<5000, 500000000>>, <<0, 500000000>>)
\* A transaction whose static keys do not hold the wallet.
ForeignDetail == TxDetail(<<OtherKey>>, <<5000>>, <<0>>)

TouchingDetail(name) ==
  IF name = "S1" THEN ReceiveDetail
  ELSE IF name = "S2" THEN SendDetail
  ELSE SignDetail

\* Injective sequences over S of length at most n.
RECURSIVE SeqsUpTo(_, _)
SeqsUpTo(S, n) ==
  IF n = 0 THEN {<<>>}
  ELSE LET shorter == SeqsUpTo(S, n - 1)
       IN  shorter \cup
           { Append(q, x) : q \in {r \in shorter : Len(r) = n - 1},
                            x \in S } 

Injective(q) == \A i, j \in DOMAIN q : q[i] = q[j] => i = j

Range(q) == {q[i] : i \in DOMAIN q}

ChainOf(names, details) ==
  [ signatures   |-> [i \in DOMAIN names |-> SigRecord(names[i])],
    transactions |-> details ]

\* Chains of the history runs: every order of up to MaxSigs signatures, each
\* transaction touching the wallet or not.
HistoryChains ==
  UNION { { ChainOf(q, [n \in Range(q) |->
                          IF n \in foreign THEN ForeignDetail
                          ELSE TouchingDetail(n)]) :
              foreign \in SUBSET Range(q) } :
          q \in {r \in SeqsUpTo(SigNames, MaxSigs) : Injective(r)} }

\* Balances (lamports) around the dead-zone boundary and ordinary amounts.
LamportValues ==
  {0, 1, 999, 1000, 1001, 250000000, 500000000, 750000000, 1500000000}

\* preBalances / postBalances arrays: absent meta, an array that is too
\* short for the wallet's index, or a value for the wallet at index 1.
BalanceArrays == {<<>>, <<5000>>} \cup {<<5000, v>> : v \in LamportValues}

\* Chains of the classifier runs: one signature, every pre/post pair.
ClassifierChains ==
  { ChainOf(<<"S1">>, [n \in {"S1"} |-> TxDetail(<<OtherKey, Addr1>>, pre, post)]) :
      pre \in BalanceArrays, post \in BalanceArrays }

\* Chains of the dashboard runs.
DashboardChains ==
  { ChainOf(<<"S1">>, [n \in {"S1"} |-> ReceiveDetail]) }

\* getBalance answers (lamports), or rejects
BalanceAnswers == {0, 1500000000}
RpcError == -1

\* ---------------------------------------------------------------- state
VARIABLES
  isConnected,         \* useWallet().isConnected
  smartWalletPubkey,   \* useWallet().smartWalletPubkey as a string, "" for null
  balance,             \* useState<number>(0), fixed point
  refreshing,          \* useState(false)
  transactions,        \* useState<any[]>([])
  loadingTransactions, \* useState(false)
  cycles,              \* the fetch cycles in flight, by slot
  refreshLog,          \* the last console.log line of handleRefresh
  alerts,              \* titles of the Alert.alert dialogs shown so far
  chain                \* what the RPC endpoint holds

\* What a test harness around the dashboard records of a run.
VARIABLES
  rpcBalance,          \* <<answer>> of the last getBalance call, <<>> before it
  completed            \* one record per refresh cycle that reached its end

\* The screen selection of WalletScreen.
VARIABLES
  currentScreen,           \* useState<Screen>('onboarding')
  isFirstLaunch,           \* useState<boolean | null>(null): "null", "true", "false"
  isCheckingExistingUser,  \* useState(true)
  navTimers                \* screens of the pending setTimeout of navigateToScreen

\* The Alert dialogs open on the device, oldest first.
VARIABLES dialogs

\* SendScreen, its state as of the mounted instance.
VARIABLES
  recipient,           \* useState(''), as a text (see Join)
  amount,              \* useState(''), as a text
  sendLoading,         \* loading: useState(false)
  sendShowResult,      \* showResult: useState(false)
  txSignature,         \* useState('')
  submissions,         \* the signAndSendTransaction calls made, in call order
  confirms             \* how often 'Send' was chosen in the confirmation dialog

\* SignMessageScreen, its state as of the mounted instance.
VARIABLES
  message,             \* useState('Welcome to Lazorkit! ...'), as a text
  signLoading,         \* loading: useState(false)
  signShowResult,      \* showResult: useState(false)
  signature,           \* useState('')
  signedPayload,       \* useState('')
  signRequests         \* the signMessage calls made, in call order

\* AsyncStorage and the SDK calls of the onboarding flow.
VARIABLES
  storage,             \* the value under 'hasCompletedOnboarding', "" when absent
  storageCalls,        \* the AsyncStorage calls awaiting their result
  reads,               \* how many getItem calls have been made
  connectCalls         \* the connect calls awaiting their callback, by caller

\* OnboardingScreen, its state as of the mounted instance.
VARIABLES
  currentStep,         \* useState(0)
  actionType           \* useState<'create' | 'login' | null>(null), "null" for null

dashboardVars ==
  << isConnected, smartWalletPubkey, balance, refreshing, transactions,
     loadingTransactions, cycles, refreshLog, alerts, chain >>

observed == << rpcBalance, completed >>

routeVars == << currentScreen, isFirstLaunch, isCheckingExistingUser, navTimers >>

sendState == << recipient, amount, sendLoading, sendShowResult, txSignature >>

sendVars == << sendState, submissions, confirms >>

signState == << message, signLoading, signShowResult, signature, signedPayload >>

signVars == << signState, signRequests >>

storeVars == << storage, storageCalls, reads >>

onboardVars == << currentStep, actionType >>

\* The state no handler of the dashboard, SendScreen or SignMessageScreen
\* touches.
backstage == << observed, storeVars, connectCalls, onboardVars >>

\* The state outside the dashboard's own and what is recorded of its runs.
screenVars ==
  << storeVars, connectCalls, onboardVars, routeVars, dialogs, sendVars,
     signVars >>

\* The state outside the dashboard's own.
offDashboard == << backstage, routeVars, dialogs, sendVars, signVars >>

vars == << dashboardVars, offDashboard >>

walletAddress == WalletAddressOf(smartWalletPubkey)

\* No cycle: what a cycle that has ended leaves behind.
FreeCycle ==
  [ origin |-> "free", addr |-> NoAddress, bal |-> "none", hist |-> "none",
    balError |-> FALSE, histError |-> FALSE, sigs |-> <<>>, settled |-> <<>> ]

\* cycles is the bag of the cycles in flight, each a record:
\* origin: "effect" (loadWalletData) or "refresh" (handleRefresh).
\* addr:   the walletAddress the cycle's closures captured.
\* bal:    fetchBalance(): "pending" on getBalance, else how its promise settled.
\* hist:   fetchTransactions(): "signatures" (awaiting getSignaturesForAddress),
\*         "details" (awaiting Promise.all), else how its promise settled.
\* balError, histError: the catch block of fetchBalance / fetchTransactions ran.
\* sigs:   the signature records fetched.
\* settled: the per-signature callbacks that have returned, in the order
\*         they settled, each [index, answer, result].
InFlight == BagToSet(cycles)

BranchSettled(b) == b \in {"fulfilled", "rejected"}

BothSettled(cy) == BranchSettled(cy.bal) /\ BranchSettled(cy.hist)

\* An effect cycle ends when both branches have settled (loadWalletData has
\* nothing to do after its await); a refresh cycle ends in its finally block.
Retire(cy) ==
  IF cy.origin = "effect" /\ BothSettled(cy) THEN FreeCycle ELSE cy

BagOf(cy) == IF cy = FreeCycle THEN EmptyBag ELSE SetToBag({cy})

\* The cycles in flight with cycle old replaced by cycle new.
Replace(old, new) == (cycles (-) BagOf(old)) (+) BagOf(new)

\* ------------------------------------------------------- fetchBalance
\* if (!walletAddress || walletAddress.trim() === '') return;
FetchBalanceSkips(addr) == addr = NoAddress

\* The throws of the try block before the await: the length check and
\* new PublicKey(walletAddress).
FetchBalanceThrows(addr) ==
  \/ Len(addr) < MinAddressLength
  \/ Len(addr) > MaxAddressLength
  \/ ~IsPublicKey(addr)

\* a catch block that leaves the balance as it was
BalanceOnErrorKeeps(previous) == previous

\* catch (err) { setBalance(0) }: the balance after a failure
BalanceOnError(previous) == 0

\* The conversion with a divisor of 10^12.
BalanceOnAnswerWrongUnit(lamports) == DivLamports(lamports) \div 1000

\* setBalance(lamports / LAMPORTS_PER_SOL)
BalanceOnAnswer(lamports) == DivLamports(lamports)

\* How the promise of fetchBalance() settles: its catch does not rethrow.
FetchBalanceSettles(failed) == "fulfilled"

\* -------------------------------------------------- fetchTransactions
FetchTransactionsSkips(addr) == addr = NoAddress

\* new PublicKey(walletAddress) of the try block
FetchTransactionsThrows(addr) == ~IsPublicKey(addr)

\* a catch block that leaves the list as it was
TransactionsOnErrorKeeps(previous) == previous

\* catch (error) { setTransactions([]) }
TransactionsOnError(previous) == <<>>

\* A callback whose catch block returns an entry that reports the failure.
DetailResultPlaceholder(sig, answer, addr) ==
  IF answer = Throw
  THEN [ signature |-> sig.signature, type |-> "other", amount |-> "0 SOL",
         time |-> ToLocaleDateString(sig.blockTime), status |-> "failed",
         title |-> "Transaction" ]
  ELSE ClassifyTransaction(sig, answer, addr)

\* The value one per-signature callback returns: its catch turns a throw of
\* getTransaction into null.
DetailResult(sig, answer, addr) ==
  IF answer = Throw THEN Null
  ELSE ClassifyTransaction(sig, answer, addr)

\* Results collected in the order the callbacks settled.
PromiseAllInSettleOrder(settled, n) == [ i \in 1..n |-> settled[i].result ]

\* Promise.all: the results by position in the input array.
PromiseAll(settled, n) ==
  [ i \in 1..n |->
      (CHOOSE r \in Range(settled) : r.index = i).result ]

\* transactionDetails.filter(tx => tx !== null)
ValidTransactions(transactionDetails) ==
  SelectSeq(transactionDetails, LAMBDA tx : tx # Null)

\* ------------------------------------------------ starting a fetch cycle
\* Promise.allSettled([fetchBalance(), fetchTransactions()]): both calls run
\* to their first await (or to their end) inside the calling segment.
NewCycle(origin, addr) ==
  [ origin  |-> origin,
    addr    |-> addr,
    bal     |-> IF FetchBalanceSkips(addr) THEN "fulfilled"
                ELSE IF FetchBalanceThrows(addr) THEN FetchBalanceSettles(TRUE)
                ELSE "pending",
    hist    |-> IF FetchTransactionsSkips(addr) \/ FetchTransactionsThrows(addr)
                THEN "fulfilled" ELSE "signatures",
    balError  |-> ~FetchBalanceSkips(addr) /\ FetchBalanceThrows(addr),
    histError |-> ~FetchTransactionsSkips(addr) /\ FetchTransactionsThrows(addr),
    sigs    |-> <<>>,
    settled |-> <<>> ]

StartCycle(origin, addr) ==
  /\ BagCardinality(cycles) < MaxCycles
  /\ cycles' = cycles (+) BagOf(Retire(NewCycle(origin, addr)))
  /\ balance' = IF ~FetchBalanceSkips(addr) /\ FetchBalanceThrows(addr)
                THEN BalanceOnError(balance) ELSE balance
  /\ transactions' =
       IF ~FetchTransactionsSkips(addr) /\ FetchTransactionsThrows(addr)
       THEN TransactionsOnError(transactions) ELSE transactions
  /\ loadingTransactions' =
       IF FetchTransactionsSkips(addr) THEN loadingTransactions
       ELSE ~FetchTransactionsThrows(addr)

\* --------------------------------------------------------------- actions
\* The effect without its else branch: nothing is cleared.
SdkUpdateKeepsData(connected, pubkey) ==
  /\ <<connected, pubkey>> # <<isConnected, smartWalletPubkey>>
  /\ isConnected' = connected
  /\ smartWalletPubkey' = pubkey
  /\ IF connected /\ WalletAddressOf(pubkey) # NoAddress
     THEN StartCycle("effect", WalletAddressOf(pubkey))
     ELSE UNCHANGED <<balance, transactions, loadingTransactions, cycles>>
  /\ UNCHANGED <<refreshing, refreshLog, alerts, chain>>

\* The SDK changes isConnected / smartWalletPubkey; the component renders
\* again and the effect on [isConnected, walletAddress] runs.
SdkUpdate(connected, pubkey) ==
  /\ <<connected, pubkey>> # <<isConnected, smartWalletPubkey>>
  /\ isConnected' = connected
  /\ smartWalletPubkey' = pubkey
  /\ IF connected /\ WalletAddressOf(pubkey) # NoAddress
     THEN StartCycle("effect", WalletAddressOf(pubkey))
     ELSE /\ balance' = 0
          /\ transactions' = <<>>
          /\ UNCHANGED <<loadingTransactions, cycles>>
  /\ UNCHANGED <<refreshing, refreshLog, alerts, chain>>

\* handleRefresh without its "if (refreshing) return" guard.
HandleRefreshNoGuard ==
  /\ isConnected
  /\ IF walletAddress = NoAddress
     THEN /\ refreshLog' = "No wallet address for refresh"
          /\ UNCHANGED <<balance, refreshing, transactions,
                         loadingTransactions, cycles>>
     ELSE /\ refreshLog' = "Starting refresh for wallet:"
          /\ refreshing' = TRUE
          /\ StartCycle("refresh", walletAddress)
  /\ UNCHANGED <<isConnected, smartWalletPubkey, alerts, chain>>

\* The refresh button of the dashboard (rendered when isConnected) calls
\* handleRefresh of the current render.
HandleRefresh ==
  /\ isConnected
  /\ IF walletAddress = NoAddress
     THEN /\ refreshLog' = "No wallet address for refresh"
          /\ UNCHANGED <<balance, refreshing, transactions,
                         loadingTransactions, cycles>>
     ELSE IF refreshing
     THEN /\ refreshLog' = "Already refreshing, skipping"
          /\ UNCHANGED <<balance, refreshing, transactions,
                         loadingTransactions, cycles>>
     ELSE /\ refreshLog' = "Starting refresh for wallet:"
          /\ refreshing' = TRUE
          /\ StartCycle("refresh", walletAddress)
  /\ UNCHANGED <<isConnected, smartWalletPubkey, alerts, chain>>

\* fetchBalance whose catch block also empties the transaction list.
GetBalanceSettleClearsList(cy, answer) ==
  /\ cy.bal = "pending"
  /\ LET failed == answer = RpcError IN
       /\ balance' = IF failed THEN BalanceOnError(balance)
                     ELSE BalanceOnAnswer(answer)
       /\ transactions' = IF failed THEN <<>> ELSE transactions
       /\ cycles' = Replace(cy, Retire([cy EXCEPT !.bal = FetchBalanceSettles(failed),
                                                  !.balError = failed]))
  /\ UNCHANGED <<isConnected, smartWalletPubkey, refreshing,
                 loadingTransactions, refreshLog, alerts, chain>>

\* getBalance answers or rejects: the rest of fetchBalance runs.
GetBalanceSettle(cy, answer) ==
  /\ cy.bal = "pending"
  /\ LET failed == answer = RpcError IN
       /\ balance' = IF failed THEN BalanceOnError(balance)
                     ELSE BalanceOnAnswer(answer)
       /\ cycles' = Replace(cy, Retire([cy EXCEPT !.bal = FetchBalanceSettles(failed),
                                                  !.balError = failed]))
  /\ UNCHANGED <<isConnected, smartWalletPubkey, refreshing, transactions,
                 loadingTransactions, refreshLog, alerts, chain>>

\* getSignaturesForAddress answers (the per-signature getTransaction calls
\* are issued) or rejects (catch and finally run).
GetSignaturesSettle(cy, ok) ==
  /\ cy.hist = "signatures"
  /\ IF ok
       THEN /\ cycles' = Replace(cy, [cy EXCEPT !.sigs = chain.signatures,
                                                   !.hist = "details"])
            /\ UNCHANGED <<transactions, loadingTransactions>>
       ELSE /\ transactions' = TransactionsOnError(transactions)
            /\ loadingTransactions' = FALSE
            /\ cycles' = Replace(cy, Retire([cy EXCEPT !.hist = "fulfilled",
                                                       !.histError = TRUE]))
  /\ UNCHANGED <<isConnected, smartWalletPubkey, balance, refreshing,
                 refreshLog, alerts, chain>>

\* What getTransaction did: threw, answered null, answered a transaction.
AnswerKind(answer) ==
  IF answer = Throw THEN "throw" ELSE IF answer = Null THEN "null" ELSE "tx"

\* getTransaction throws, answers null, or answers the stored transaction.
DetailAnswers(sig) == {Throw, Null, chain.transactions[sig.signature]}

SettledIndexes(cy) == {r.index : r \in Range(cy.settled)}

\* getTransaction of signature i answers with the stored transaction, with
\* null, or throws: the callback of signature i returns.
GetTransactionSettle(cy, i, answer) ==
  /\ cy.hist = "details"
  /\ i \in DOMAIN cy.sigs
  /\ i \notin SettledIndexes(cy)
  /\ answer \in DetailAnswers(cy.sigs[i])
  /\ cycles' = Replace(cy, [cy EXCEPT !.settled =
                    Append(@, [ index  |-> i,
                                answer |-> AnswerKind(answer),
                                result |-> DetailResult(cy.sigs[i], answer,
                                                        cy.addr) ])])
  /\ UNCHANGED <<isConnected, smartWalletPubkey, balance, refreshing,
                 transactions, loadingTransactions, refreshLog, alerts, chain>>

\* fetchTransactions that appends what it fetched to the list it had.
FetchTransactionsFinishMerges(cy) ==
  /\ cy.hist = "details"
  /\ Len(cy.settled) = Len(cy.sigs)
  /\ transactions' =
       transactions \o ValidTransactions(PromiseAll(cy.settled, Len(cy.sigs)))
  /\ loadingTransactions' = FALSE
  /\ cycles' = Replace(cy, Retire([cy EXCEPT !.hist = "fulfilled"]))
  /\ UNCHANGED <<isConnected, smartWalletPubkey, balance, refreshing,
                 refreshLog, alerts, chain>>

\* Promise.all has every result: filter, setTransactions, finally.
FetchTransactionsFinish(cy) ==
  /\ cy.hist = "details"
  /\ Len(cy.settled) = Len(cy.sigs)
  /\ transactions' = ValidTransactions(PromiseAll(cy.settled, Len(cy.sigs)))
  /\ loadingTransactions' = FALSE
  /\ cycles' = Replace(cy, Retire([cy EXCEPT !.hist = "fulfilled"]))
  /\ UNCHANGED <<isConnected, smartWalletPubkey, balance, refreshing,
                 refreshLog, alerts, chain>>

\* Promise.allSettled fulfils whatever its inputs do: the catch block of
\* handleRefresh, with its 'Refresh Failed' alert, has no way in.
AllSettledRejects == FALSE

\* handleRefresh without setRefreshing(false) in its finally block.
HandleRefreshFinallyKeepsFlag(cy) ==
  /\ cy.origin = "refresh"
  /\ BothSettled(cy)
  /\ refreshLog' = "Refresh completed successfully"
  /\ cycles' = Replace(cy, FreeCycle)
  /\ UNCHANGED <<isConnected, smartWalletPubkey, balance, transactions,
                 loadingTransactions, alerts, chain, refreshing>>

\* Promise.allSettled of handleRefresh has both results: the rest of the try
\* block and the finally block run.
HandleRefreshFinally(cy) ==
  /\ cy.origin = "refresh"
  /\ BothSettled(cy)
  /\ IF AllSettledRejects
     THEN /\ alerts' = alerts \cup {"Refresh Failed"}
          /\ UNCHANGED refreshLog
     ELSE /\ refreshLog' = "Refresh completed successfully"
          /\ UNCHANGED alerts
  /\ refreshing' = FALSE
  /\ cycles' = Replace(cy, FreeCycle)
  /\ UNCHANGED <<isConnected, smartWalletPubkey, balance, transactions,
                 loadingTransactions, chain>>

\* ------------------------------------------------------------ texts
\* A text is the sequence of its pieces, each a single character or a run
\* of characters without white space; Join is the JavaScript string.
IsSpace(c) == c = " "

RECURSIVE Join(_)
Join(text) == IF text = <<>> THEN "" ELSE Head(text) \o Join(Tail(text))

RECURSIVE TrimStart(_)
TrimStart(text) ==
  IF text # <<>> /\ IsSpace(Head(text)) THEN TrimStart(Tail(text)) ELSE text

RECURSIVE TrimEnd(_)
TrimEnd(text) ==
  IF text # <<>> /\ IsSpace(text[Len(text)])
  THEN TrimEnd(SubSeq(text, 1, Len(text) - 1)) ELSE text

\* String.prototype.trim
Trim(text) == TrimEnd(TrimStart(text))

\* text.replace(/\s+/g, '')
RemoveSpace(text) == SelectSeq(text, LAMBDA c : ~IsSpace(c))

Digits == <<"0", "1", "2", "3", "4", "5", "6", "7", "8", "9">>
IsDigit(c) == c \in Range(Digits)
DigitValue(c) == (CHOOSE d \in DOMAIN Digits : Digits[d] = c) - 1
DigitChar(d) == Digits[d + 1]

\* The index after the run of digits that starts at i.
RECURSIVE DigitsEnd(_, _)
DigitsEnd(text, i) ==
  IF i <= Len(text) /\ IsDigit(text[i]) THEN DigitsEnd(text, i + 1) ELSE i

\* The digits text[i .. j-1] read as an integer.
RECURSIVE IntegerOf(_, _, _)
IntegerOf(text, i, j) ==
  IF i >= j THEN 0
  ELSE IntegerOf(text, i, j - 1) * 10 + DigitValue(text[j - 1])

\* The digits text[i .. j-1] read as a fraction, the first digit worth unit.
RECURSIVE FractionOf(_, _, _, _)
FractionOf(text, i, j, unit) ==
  IF i >= j \/ unit = 0 THEN 0
  ELSE DigitValue(text[i]) * unit + FractionOf(text, i + 1, j, unit \div 10)

\* A JavaScript number: NaN, or a value in fixed point.
NaN == [nan |-> TRUE, value |-> 0]
NumberOf(v) == [nan |-> FALSE, value |-> v]

\* parseFloat: leading white space, a sign, digits, a point and digits; what
\* follows is ignored; NaN when there is no digit.  (The texts hold neither
\* an exponent nor "Infinity".)
ParseFloat(text) ==
  LET t       == TrimStart(text)
      signed  == t # <<>> /\ t[1] \in {"-", "+"}
      i0      == IF signed THEN 2 ELSE 1
      i1      == DigitsEnd(t, i0)
      hasDot  == i1 <= Len(t) /\ t[i1] = "."
      f1      == IF hasDot THEN DigitsEnd(t, i1 + 1) ELSE i1 + 1
      magnitude == IntegerOf(t, i0, i1) * NanoPerUnit
                     + (IF hasDot THEN FractionOf(t, i1 + 1, f1, NanoPerUnit \div 10)
                        ELSE 0)
  IN  IF i1 = i0 /\ (~hasDot \/ f1 = i1 + 1) THEN NaN
      ELSE NumberOf(IF signed /\ t[1] = "-" THEN -magnitude ELSE magnitude)

\* String(n) of a natural number, as a text
RECURSIVE NatText(_)
NatText(n) ==
  IF n < 10 THEN <<DigitChar(n)>>
  ELSE NatText(n \div 10) \o <<DigitChar(n % 10)>>

RECURSIVE PadStartText(_, _)
PadStartText(text, width) ==
  IF Len(text) >= width THEN text ELSE PadStartText(<<"0">> \o text, width)

\* Number.prototype.toFixed(digits), as a text
ToFixedText(x, digits) ==
  LET unit   == NanoPerUnit \div Pow10(digits)
      scaled == (Abs(x) + unit \div 2) \div unit
  IN  (IF x < 0 THEN <<"-">> ELSE <<>>)
        \o NatText(scaled \div Pow10(digits)) \o <<".">>
        \o PadStartText(NatText(scaled % Pow10(digits)), digits)

\* ------------------------------------------------------ Alert dialogs
\* Alert.alert(title, message): one 'OK' button.
ErrorAlert(title, text) ==
  [ title |-> title, message |-> text, onSend |-> <<>> ]

\* Alert.alert('Confirm Transaction', ..., [Cancel, Send]): the 'Send'
\* button holds the closure of the handleSend call that opened the dialog.
ConfirmDialog(sendAmount, to, from) ==
  [ title   |-> "Confirm Transaction",
    message |-> "",
    onSend  |-> << [ sendAmount |-> sendAmount, to |-> to, from |-> from,
                     live |-> TRUE ] >> ]

RemoveAt(q, k) == SubSeq(q, 1, k - 1) \o SubSeq(q, k + 1, Len(q))

\* The closures of an unmounted SendScreen: their setState calls do nothing.
Detached(q) == [ k \in DOMAIN q |-> [ q[k] EXCEPT !.live = FALSE ] ]

DetachedDialogs(q) ==
  [ k \in DOMAIN q |-> [ q[k] EXCEPT !.onSend = Detached(@) ] ]

\* ------------------------------------------------------ screen selection
\* The default message of SignMessageScreen.
DefaultMessage ==
  << "Welcome", " ", "to", " ", "Lazorkit!", " ", "This", " ", "message", " ",
     "proves", " ", "I", " ", "own", " ", "this", " ", "wallet." >>

\* A routing effect that selects 'wallet' for every user.
RoutingEffectAlwaysWallet(connected, firstLaunch, checking, screen) ==
  IF firstLaunch = "null" \/ checking THEN screen ELSE "wallet"

\* The routing effect on [isConnected, isFirstLaunch, isCheckingExistingUser].
RoutingEffect(connected, firstLaunch, checking, screen) ==
  IF firstLaunch = "null" \/ checking THEN screen
  ELSE IF connected THEN "wallet"
  ELSE IF firstLaunch = "true" THEN "onboarding"
  ELSE "wallet"

\* SendScreen leaves the tree: its state is gone (the next instance starts
\* from useState's initial values), its closures are detached.
SendScreenUnmounts ==
  /\ recipient' = <<>>
  /\ amount' = <<>>
  /\ sendLoading' = FALSE
  /\ sendShowResult' = FALSE
  /\ txSignature' = ""
  /\ submissions' = Detached(submissions)

\* SignMessageScreen leaves the tree.
SignScreenUnmounts ==
  /\ message' = DefaultMessage
  /\ signLoading' = FALSE
  /\ signShowResult' = FALSE
  /\ signature' = ""
  /\ signedPayload' = ""
  /\ signRequests' = Detached(signRequests)

\* OnboardingScreen leaves the tree: the next instance starts from
\* useState's initial values.
OnboardingScreenUnmounts ==
  /\ currentStep' = 0
  /\ actionType' = "null"

\* setCurrentScreen(screen) and the render that follows, in a handler that
\* also opens the alerts 'opened'.
SetCurrentScreenWith(screen, opened) ==
  /\ currentScreen' = screen
  /\ IF currentScreen = "send" /\ screen # "send"
     THEN /\ SendScreenUnmounts
          /\ dialogs' = DetachedDialogs(dialogs) \o opened
     ELSE /\ UNCHANGED <<sendState, submissions>>
          /\ dialogs' = dialogs \o opened
  /\ IF currentScreen = "sign" /\ screen # "sign"
     THEN SignScreenUnmounts
     ELSE UNCHANGED signVars
  /\ IF currentScreen = "onboarding" /\ screen # "onboarding"
     THEN OnboardingScreenUnmounts
     ELSE UNCHANGED onboardVars

\* setCurrentScreen(screen) and the render that follows.
SetCurrentScreen(screen) == SetCurrentScreenWith(screen, <<>>)

\* navigateToScreen(screen): setTimeout(() => setCurrentScreen(screen), 150)
NavigateToScreen(screen) == navTimers' = navTimers \cup {screen}

\* The view WalletScreen returns.
Rendered ==
  IF isFirstLaunch = "null" \/ isCheckingExistingUser THEN "loading"
  ELSE IF currentScreen # "wallet" THEN currentScreen
  ELSE IF isConnected THEN "dashboard"
  ELSE "connect"

\* No Alert dialog is in front of the screen.
Touchable == dialogs = <<>>

\* The SDK changes isConnected / smartWalletPubkey: the load effect and the
\* routing effect run.
WalletUpdate(connected, pubkey) ==
  /\ SdkUpdate(connected, pubkey)
  /\ SetCurrentScreen(IF connected # isConnected
                      THEN RoutingEffect(connected, isFirstLaunch,
                                         isCheckingExistingUser, currentScreen)
                      ELSE currentScreen)
  /\ UNCHANGED <<isFirstLaunch, isCheckingExistingUser, navTimers, confirms,
                 observed, storeVars, connectCalls>>

\* An action button of the dashboard: navigateToScreen(screen).
DashboardNavigate(screen) ==
  /\ Rendered = "dashboard"
  /\ Touchable
  /\ NavigateToScreen(screen)
  /\ UNCHANGED <<dashboardVars, backstage, signVars, currentScreen, isFirstLaunch,
                 isCheckingExistingUser, dialogs, sendVars>>

\* The timer of navigateToScreen fires.
NavigationTimer(screen) ==
  /\ screen \in navTimers
  /\ navTimers' = navTimers \ {screen}
  /\ SetCurrentScreen(screen)
  /\ UNCHANGED <<dashboardVars, observed, storeVars, connectCalls,
                 isFirstLaunch, isCheckingExistingUser, confirms>>

\* ---------------------------------------------------------- SendScreen
MsgNotConnected == "Wallet not connected"
MsgFillFields == "Please fill in all fields"
MsgInvalidRecipient ==
  "Invalid recipient address. Please enter a valid Solana address."
MsgInvalidAmount == "Invalid amount. Please enter a valid number."
MsgInsufficient(available) ==
  "Insufficient balance. Available: " \o ToFixed(available, FixedDigits) \o " SOL"
MsgTransactionFailed == "Transaction failed. Please try again."
MsgSendFailed == "Failed to send transaction. Please try again."

\* validateAddress without the parse of the address
ValidateAddressNonEmpty(address) == Join(Trim(address)) # ""

\* validateAddress
ValidateAddress(address) ==
  IF Join(address) = "" THEN FALSE
  ELSE IF Len(Join(Trim(address))) = 0 THEN FALSE
  ELSE IsPublicKey(Join(Trim(address)))

\* The checks of handleSend with the required-field check made first.
SendCheckFieldsFirst ==
  LET trimmedRecipient == Trim(recipient)
      trimmedAmount    == Trim(amount)
      sendAmount       == ParseFloat(trimmedAmount)
  IN  IF Join(trimmedRecipient) = "" \/ Join(trimmedAmount) = ""
        THEN MsgFillFields
      ELSE IF ~isConnected \/ smartWalletPubkey = NoAddress THEN MsgNotConnected
      ELSE IF ~ValidateAddress(trimmedRecipient) THEN MsgInvalidRecipient
      ELSE IF sendAmount.nan \/ sendAmount.value <= 0 THEN MsgInvalidAmount
      ELSE IF sendAmount.value > balance THEN MsgInsufficient(balance)
      ELSE ""

\* The checks of handleSend in their order: the message of the first one
\* that fails, "" when all pass.
SendCheck ==
  IF ~isConnected \/ smartWalletPubkey = NoAddress THEN MsgNotConnected
  ELSE
    LET trimmedRecipient == Trim(recipient)
        trimmedAmount    == Trim(amount)
        sendAmount       == ParseFloat(trimmedAmount)
    IN  IF Join(trimmedRecipient) = "" \/ Join(trimmedAmount) = ""
          THEN MsgFillFields
        ELSE IF ~ValidateAddress(trimmedRecipient) THEN MsgInvalidRecipient
        ELSE IF sendAmount.nan \/ sendAmount.value <= 0 THEN MsgInvalidAmount
        ELSE IF sendAmount.value > balance THEN MsgInsufficient(balance)
        ELSE ""

\* Math.floor(sendAmount * LAMPORTS_PER_SOL)
ToLamports(sendAmount) == sendAmount \div (NanoPerUnit \div LAMPORTS_PER_SOL)

\* handleRecipientChange
HandleRecipientChange(text) ==
  /\ Rendered = "send" /\ Touchable /\ ~sendShowResult
  /\ recipient' = Trim(RemoveSpace(text))
  /\ UNCHANGED <<dashboardVars, backstage, signVars, routeVars, dialogs, amount,
                 sendLoading, sendShowResult, txSignature, submissions, confirms>>

\* const cleanText = text.replace(/[^0-9.]/g, '')
CleanAmount(text) == SelectSeq(text, LAMBDA c : IsDigit(c) \/ c = ".")

\* cleanText.split('.').length
NumParts(text) == Cardinality({k \in DOMAIN text : text[k] = "."}) + 1

\* handleAmountChange
HandleAmountChange(text) ==
  /\ Rendered = "send" /\ Touchable /\ ~sendShowResult
  /\ amount' = IF NumParts(CleanAmount(text)) > 2 THEN amount
               ELSE CleanAmount(text)
  /\ UNCHANGED <<dashboardVars, backstage, signVars, routeVars, dialogs, recipient,
                 sendLoading, sendShowResult, txSignature, submissions, confirms>>

\* The 0.005 of handleMax, in fixed point.
MaxBuffer == 5000000

\* handleMax
HandleMax ==
  /\ Rendered = "send" /\ Touchable /\ ~sendShowResult
  /\ amount' = ToFixedText(IF balance - MaxBuffer > 0 THEN balance - MaxBuffer
                           ELSE 0, FixedDigits)
  /\ UNCHANGED <<dashboardVars, backstage, signVars, routeVars, dialogs, recipient,
                 sendLoading, sendShowResult, txSignature, submissions, confirms>>

\* handleSend that skips its balance check.
HandleSendNoBalanceCheck ==
  /\ Rendered = "send" /\ Touchable /\ ~sendShowResult
  /\ ~sendLoading
  /\ dialogs' = Append(dialogs,
       IF SendCheck = "" \/ SendCheck = MsgInsufficient(balance)
       THEN ConfirmDialog(ParseFloat(Trim(amount)).value,
                          Join(Trim(recipient)), smartWalletPubkey)
       ELSE ErrorAlert("Error", SendCheck))
  /\ UNCHANGED <<dashboardVars, backstage, signVars, routeVars, sendVars>>

\* The Send Transaction button (disabled while loading): handleSend.
HandleSend ==
  /\ Rendered = "send" /\ Touchable /\ ~sendShowResult
  /\ ~sendLoading
  /\ dialogs' = Append(dialogs,
       IF SendCheck = ""
       THEN ConfirmDialog(ParseFloat(Trim(amount)).value,
                          Join(Trim(recipient)), smartWalletPubkey)
       ELSE ErrorAlert("Error", SendCheck))
  /\ UNCHANGED <<dashboardVars, backstage, signVars, routeVars, sendVars>>

\* The dialog on display: the device shows the open dialogs one at a time,
\* oldest first.
Front == 1

\* 'OK' of an alert, or 'Cancel' of the confirmation dialog.
DismissDialog(k) ==
  /\ k \in DOMAIN dialogs
  /\ k = Front
  /\ dialogs' = RemoveAt(dialogs, k)
  /\ UNCHANGED <<dashboardVars, backstage, signVars, routeVars, sendVars>>

\* 'Send' of the confirmation dialog: setLoading(true) and the call of
\* signAndSendTransaction, which returns a pending promise.
ConfirmSend(k) ==
  /\ k \in DOMAIN dialogs
  /\ k = Front
  /\ dialogs[k].onSend # <<>>
  /\ Len(submissions) < MaxSends
  /\ LET closure == dialogs[k].onSend[1] IN
       /\ sendLoading' = IF closure.live THEN TRUE ELSE sendLoading
       /\ submissions' = Append(submissions,
            [ from     |-> closure.from,
              to       |-> closure.to,
              lamports |-> ToLamports(closure.sendAmount),
              live     |-> closure.live,
              promise  |-> "pending",
              callback |-> "none" ])
  /\ confirms' = confirms + 1
  /\ dialogs' = RemoveAt(dialogs, k)
  /\ UNCHANGED <<dashboardVars, backstage, signVars, routeVars, recipient, amount,
                 sendShowResult, txSignature>>

\* The SDK invokes onSuccess(sig) of submission k.
SendOnSuccess(k, sig) ==
  /\ k \in DOMAIN submissions
  /\ submissions[k].callback = "none"
  /\ submissions[k].promise # "rejected"
  /\ submissions' = [submissions EXCEPT ![k].callback = "success"]
  /\ IF submissions[k].live
     THEN /\ txSignature' = sig
          /\ sendShowResult' = TRUE
          /\ sendLoading' = FALSE
     ELSE UNCHANGED <<txSignature, sendShowResult, sendLoading>>
  /\ UNCHANGED <<dashboardVars, backstage, signVars, routeVars, dialogs, recipient,
                 amount, confirms>>

\* error.message || fallback
MessageOr(given, fallback) == IF given = "" THEN fallback ELSE given

\* onFail that submits the transaction again.
SendOnFailRetries(k, reason) ==
  /\ k \in DOMAIN submissions
  /\ submissions[k].callback = "none"
  /\ Len(submissions) < MaxSends
  /\ submissions' = Append([submissions EXCEPT ![k].callback = "fail"],
                           [ submissions[k] EXCEPT !.promise = "pending",
                                                   !.callback = "none" ])
  /\ dialogs' = Append(dialogs, ErrorAlert("Transaction Failed",
                                 MessageOr(reason, MsgTransactionFailed)))
  /\ UNCHANGED <<dashboardVars, backstage, signVars, routeVars, recipient, amount,
                 sendLoading, sendShowResult, txSignature, confirms>>

\* The SDK invokes onFail(error) of submission k.
SendOnFail(k, reason) ==
  /\ k \in DOMAIN submissions
  /\ submissions[k].callback = "none"
  /\ submissions' = [submissions EXCEPT ![k].callback = "fail"]
  /\ dialogs' = Append(dialogs, ErrorAlert("Transaction Failed",
                                 MessageOr(reason, MsgTransactionFailed)))
  /\ sendLoading' = IF submissions[k].live THEN FALSE ELSE sendLoading
  /\ UNCHANGED <<dashboardVars, backstage, signVars, routeVars, recipient, amount,
                 sendShowResult, txSignature, confirms>>

\* The promise of submission k rejects: the catch block of the closure.
SendRejects(k, reason) ==
  /\ k \in DOMAIN submissions
  /\ submissions[k].promise = "pending"
  /\ submissions[k].callback # "success"
  /\ submissions' = [submissions EXCEPT ![k].promise = "rejected"]
  /\ dialogs' = Append(dialogs, ErrorAlert("Error",
                                 MessageOr(reason, MsgSendFailed)))
  /\ sendLoading' = IF submissions[k].live THEN FALSE ELSE sendLoading
  /\ UNCHANGED <<dashboardVars, backstage, signVars, routeVars, recipient, amount,
                 sendShowResult, txSignature, confirms>>

\* The promise of submission k resolves: nothing follows the await.
SendResolves(k) ==
  /\ k \in DOMAIN submissions
  /\ submissions[k].promise = "pending"
  /\ submissions' = [submissions EXCEPT ![k].promise = "resolved"]
  /\ UNCHANGED <<dashboardVars, backstage, signVars, routeVars, dialogs, sendState,
                 confirms>>

\* The Back button of the header: onBack.
SendBack ==
  /\ Rendered = "send" /\ Touchable /\ ~sendShowResult
  /\ NavigateToScreen("wallet")
  /\ UNCHANGED <<dashboardVars, backstage, signVars, currentScreen, isFirstLaunch,
                 isCheckingExistingUser, dialogs, sendVars>>

\* The Done button of the success modal.
SendDone ==
  /\ Rendered = "send" /\ Touchable /\ sendShowResult
  /\ sendShowResult' = FALSE
  /\ amount' = <<>>
  /\ recipient' = <<>>
  /\ NavigateToScreen("wallet")
  /\ UNCHANGED <<dashboardVars, backstage, signVars, currentScreen, isFirstLaunch,
                 isCheckingExistingUser, dialogs, sendLoading, txSignature,
                 submissions, confirms>>

\* ---------------------------------------------------- SignMessageScreen
MsgEnterMessage == "Please enter a message to sign"
MsgSignFailed == "Failed to sign message"

\* The checks of handleSign in their order: the message of the first one
\* that fails, "" when all pass.
SignCheck ==
  IF ~isConnected THEN MsgNotConnected
  ELSE IF Join(Trim(message)) = "" THEN MsgEnterMessage
  ELSE ""

\* The message field and the quick-message buttons: setMessage(text).
SetMessage(text) ==
  /\ Rendered = "sign" /\ Touchable /\ ~signShowResult
  /\ message' = text
  /\ UNCHANGED <<dashboardVars, backstage, sendVars, routeVars, dialogs,
                 signLoading, signShowResult, signature, signedPayload,
                 signRequests>>

\* The Sign Message button (disabled while loading): handleSign up to its
\* await. A failed check shows its alert and returns; otherwise
\* setLoading(true) and the call of signMessage, which returns a pending
\* promise.
HandleSign ==
  /\ Rendered = "sign" /\ Touchable /\ ~signShowResult
  /\ ~signLoading
  /\ IF SignCheck # ""
     THEN /\ dialogs' = Append(dialogs, ErrorAlert("Error", SignCheck))
          /\ UNCHANGED signVars
     ELSE /\ Len(signRequests) < MaxSignRequests
          /\ signLoading' = TRUE
          /\ signRequests' = Append(signRequests,
               [ message  |-> Join(message),
                 live     |-> TRUE,
                 promise  |-> "pending",
                 callback |-> "none" ])
          /\ UNCHANGED <<dialogs, message, signShowResult, signature,
                         signedPayload>>
  /\ UNCHANGED <<dashboardVars, backstage, sendVars, routeVars>>

\* setSignature, setSignedPayload, setShowResult(true) of a mounted screen.
ShowSignResult(k, res) ==
  IF signRequests[k].live
  THEN /\ signature' = res.signature
       /\ signedPayload' = res.signedPayload
       /\ signShowResult' = TRUE
  ELSE UNCHANGED <<signature, signedPayload, signShowResult>>

\* The SDK invokes onSuccess(res) of request k.
SignOnSuccess(k, res) ==
  /\ k \in DOMAIN signRequests
  /\ signRequests[k].callback = "none"
  /\ signRequests[k].promise # "rejected"
  /\ signRequests' = [signRequests EXCEPT ![k].callback = "success"]
  /\ ShowSignResult(k, res)
  /\ UNCHANGED <<dashboardVars, backstage, sendVars, routeVars, dialogs,
                 message, signLoading>>

\* The SDK invokes onFail(error) of request k.
SignOnFail(k, reason) ==
  /\ k \in DOMAIN signRequests
  /\ signRequests[k].callback = "none"
  /\ signRequests' = [signRequests EXCEPT ![k].callback = "fail"]
  /\ dialogs' = Append(dialogs, ErrorAlert("Error",
                                 MessageOr(reason, MsgSignFailed)))
  /\ UNCHANGED <<dashboardVars, backstage, sendVars, routeVars, signState>>

\* handleSign without its 'if (result)' block: a result that arrives as the
\* value of the promise is dropped.
SignResolvesDropsResult(k, result) ==
  /\ k \in DOMAIN signRequests
  /\ signRequests[k].promise = "pending"
  /\ signRequests' = [signRequests EXCEPT ![k].promise = "resolved"]
  /\ signLoading' = IF signRequests[k].live THEN FALSE ELSE signLoading
  /\ UNCHANGED <<dashboardVars, backstage, sendVars, routeVars, dialogs,
                 message, signature, signedPayload, signShowResult>>

\* The promise of request k resolves with a result (<<res>>) or with
\* undefined (<<>>): 'if (result)' and the finally block.
SignResolves(k, result) ==
  /\ k \in DOMAIN signRequests
  /\ signRequests[k].promise = "pending"
  /\ signRequests' = [signRequests EXCEPT ![k].promise = "resolved"]
  /\ IF result # <<>>
     THEN ShowSignResult(k, result[1])
     ELSE UNCHANGED <<signature, signedPayload, signShowResult>>
  /\ signLoading' = IF signRequests[k].live THEN FALSE ELSE signLoading
  /\ UNCHANGED <<dashboardVars, backstage, sendVars, routeVars, dialogs,
                 message>>

\* handleSign without its finally block: a rejected call leaves loading set.
SignRejectsKeepsLoading(k, reason) ==
  /\ k \in DOMAIN signRequests
  /\ signRequests[k].promise = "pending"
  /\ signRequests[k].callback # "success"
  /\ signRequests' = [signRequests EXCEPT ![k].promise = "rejected"]
  /\ dialogs' = Append(dialogs, ErrorAlert("Error",
                                 MessageOr(reason, MsgSignFailed)))
  /\ UNCHANGED <<dashboardVars, backstage, sendVars, routeVars, message,
                 signLoading, signShowResult, signature, signedPayload>>

\* The promise of request k rejects: the catch and the finally block.
SignRejects(k, reason) ==
  /\ k \in DOMAIN signRequests
  /\ signRequests[k].promise = "pending"
  /\ signRequests[k].callback # "success"
  /\ signRequests' = [signRequests EXCEPT ![k].promise = "rejected"]
  /\ dialogs' = Append(dialogs, ErrorAlert("Error",
                                 MessageOr(reason, MsgSignFailed)))
  /\ signLoading' = IF signRequests[k].live THEN FALSE ELSE signLoading
  /\ UNCHANGED <<dashboardVars, backstage, sendVars, routeVars, message,
                 signShowResult, signature, signedPayload>>

\* The Back button of the header: onBack.
SignBack ==
  /\ Rendered = "sign" /\ Touchable /\ ~signShowResult
  /\ NavigateToScreen("wallet")
  /\ UNCHANGED <<dashboardVars, backstage, sendVars, currentScreen,
                 isFirstLaunch, isCheckingExistingUser, dialogs, signVars>>

\* The Done button of the success modal.
SignDone ==
  /\ Rendered = "sign" /\ Touchable /\ signShowResult
  /\ signShowResult' = FALSE
  /\ message' = <<>>
  /\ NavigateToScreen("wallet")
  /\ UNCHANGED <<dashboardVars, backstage, sendVars, currentScreen,
                 isFirstLaunch, isCheckingExistingUser, dialogs, signLoading,
                 signature, signedPayload, signRequests>>

\* ------------------------------- WalletScreen: user status and onboarding
StorageKey == "hasCompletedOnboarding"
\* What getItem answers for a key that is not stored (null).
NoItem == ""

\* An AsyncStorage call awaiting its result.
StorageCall(op, value) == [ op |-> op, key |-> StorageKey, value |-> value ]

\* The mount effect: checkUserStatus up to its await of getItem.
CheckUserStatusStart ==
  /\ isCheckingExistingUser = TRUE
  /\ storageCalls = << StorageCall("getItem", NoItem) >>
  /\ reads = 1

\* checkUserStatus whose catch block takes the user for a returning one.
CheckUserStatusSettlesCatchReturning(k, ok) ==
  /\ k \in DOMAIN storageCalls
  /\ storageCalls[k].op = "getItem"
  /\ storageCalls' = RemoveAt(storageCalls, k)
  /\ LET first == IF ok /\ storage # "true" THEN "true" ELSE "false" IN
       /\ isFirstLaunch' = first
       /\ isCheckingExistingUser' = FALSE
       /\ SetCurrentScreen(RoutingEffect(isConnected, first, FALSE, currentScreen))
  /\ UNCHANGED <<dashboardVars, observed, storage, reads, connectCalls,
                 navTimers, confirms>>

\* getItem answers (ok) or rejects: checkUserStatus after its await, and
\* the routing effect that follows the change of isCheckingExistingUser.
CheckUserStatusSettles(k, ok) ==
  /\ k \in DOMAIN storageCalls
  /\ storageCalls[k].op = "getItem"
  /\ storageCalls' = RemoveAt(storageCalls, k)
  /\ LET first == IF ok /\ storage = "true" THEN "false" ELSE "true" IN
       /\ isFirstLaunch' = first
       /\ isCheckingExistingUser' = FALSE
       /\ SetCurrentScreen(RoutingEffect(isConnected, first, FALSE, currentScreen))
  /\ UNCHANGED <<dashboardVars, observed, storage, reads, connectCalls,
                 navTimers, confirms>>

\* markOnboardingComplete up to its await of setItem.
MarkOnboardingComplete ==
  storageCalls' = Append(storageCalls, StorageCall("setItem", "true"))

\* setItem answers (ok) or rejects: markOnboardingComplete after its await,
\* and the routing effect when isFirstLaunch changed.
MarkOnboardingCompleteSettles(k, ok) ==
  /\ k \in DOMAIN storageCalls
  /\ storageCalls[k].op = "setItem"
  /\ storageCalls' = RemoveAt(storageCalls, k)
  /\ IF ok
     THEN /\ storage' = storageCalls[k].value
          /\ isFirstLaunch' = "false"
          /\ SetCurrentScreen(IF isFirstLaunch # "false"
                              THEN RoutingEffect(isConnected, "false",
                                     isCheckingExistingUser, currentScreen)
                              ELSE currentScreen)
     ELSE /\ UNCHANGED <<storage, isFirstLaunch>>
          /\ SetCurrentScreen(currentScreen)
  /\ UNCHANGED <<dashboardVars, observed, reads, connectCalls,
                 isCheckingExistingUser, navTimers, confirms>>

\* The Reset Onboarding button of the dashboard: resetOnboarding up to its
\* await of removeItem.
ResetOnboarding ==
  /\ Rendered = "dashboard" /\ Touchable
  /\ Len(storageCalls) < MaxStorageCalls
  /\ storageCalls' = Append(storageCalls, StorageCall("removeItem", NoItem))
  /\ UNCHANGED <<dashboardVars, observed, storage, reads, connectCalls,
                 onboardVars, routeVars, dialogs, sendVars, signVars>>

\* removeItem answers (ok) or rejects: resetOnboarding after its await, and
\* the routing effect when isFirstLaunch changed.
ResetOnboardingSettles(k, ok) ==
  /\ k \in DOMAIN storageCalls
  /\ storageCalls[k].op = "removeItem"
  /\ storageCalls' = RemoveAt(storageCalls, k)
  /\ IF ok
     THEN /\ storage' = NoItem
          /\ isFirstLaunch' = "true"
          /\ SetCurrentScreenWith(
               IF isFirstLaunch # "true"
               THEN RoutingEffect(isConnected, "true", isCheckingExistingUser,
                                  "onboarding")
               ELSE "onboarding",
               << ErrorAlert("Reset Complete",
                             "You can now go through onboarding again") >>)
     ELSE /\ UNCHANGED <<storage, isFirstLaunch>>
          /\ SetCurrentScreen(currentScreen)
  /\ UNCHANGED <<dashboardVars, observed, reads, connectCalls,
                 isCheckingExistingUser, navTimers, confirms>>

\* A connect or disconnect call awaiting its callback.
SdkCall(caller) == [ caller |-> caller ]

\* onboardingSteps.length
StepCount == 4
LastStep == StepCount - 1

\* handleCreateWallet(type) up to its await: setActionType(type) and the
\* connect call.
HandleCreateWallet(type) ==
  /\ actionType' = type
  /\ connectCalls' = Append(connectCalls, SdkCall("handleCreateWallet"))

\* The Get Started / Continue button and, on the last step, the Create
\* Account button (disabled while isConnecting): handleNext.
HandleNext ==
  /\ Rendered = "onboarding" /\ Touchable
  /\ connectCalls = <<>>
  /\ IF currentStep < StepCount - 1
     THEN /\ currentStep' = currentStep + 1
          /\ UNCHANGED <<actionType, connectCalls>>
     ELSE /\ Len(storageCalls) < MaxStorageCalls
          /\ HandleCreateWallet("create")
          /\ UNCHANGED currentStep
  /\ UNCHANGED <<dashboardVars, observed, storeVars, routeVars, dialogs,
                 sendVars, signVars>>

\* The Login button of the last step (disabled while isConnecting):
\* handleLogin.
HandleLogin ==
  /\ Rendered = "onboarding" /\ Touchable
  /\ currentStep = LastStep
  /\ connectCalls = <<>>
  /\ Len(storageCalls) < MaxStorageCalls
  /\ HandleCreateWallet("login")
  /\ UNCHANGED <<dashboardVars, observed, storeVars, routeVars, dialogs,
                 sendVars, signVars, currentStep>>

\* handleScroll without its range test.
HandleScrollUnchecked(step) ==
  /\ Rendered = "onboarding" /\ Touchable
  /\ currentStep' = step
  /\ UNCHANGED <<dashboardVars, observed, storeVars, connectCalls, actionType,
                 routeVars, dialogs, sendVars, signVars>>

\* The pager has come to rest at the page 'step' (Math.round of the offset
\* over the screen width): handleScroll.
HandleScroll(step) ==
  /\ Rendered = "onboarding" /\ Touchable
  /\ currentStep' = IF step # currentStep /\ step >= 0 /\ step < StepCount
                    THEN step
                    ELSE currentStep
  /\ UNCHANGED <<dashboardVars, observed, storeVars, connectCalls, actionType,
                 routeVars, dialogs, sendVars, signVars>>

\* The Skip button of the header: handleSkip.
HandleSkip ==
  /\ Rendered = "onboarding" /\ Touchable
  /\ currentStep' = LastStep
  /\ UNCHANGED <<dashboardVars, observed, storeVars, connectCalls, actionType,
                 routeVars, dialogs, sendVars, signVars>>

\* The button of the connect prompt (disabled while isConnecting):
\* handleConnect calls connect.
HandleConnect ==
  /\ Rendered = "connect" /\ Touchable
  /\ connectCalls = <<>>
  /\ connectCalls' = Append(connectCalls, SdkCall("handleConnect"))
  /\ UNCHANGED <<dashboardVars, observed, storeVars, onboardVars, routeVars,
                 dialogs, sendVars, signVars>>

\* The Disconnect Wallet button of the dashboard, pressed while no other
\* call of the SDK awaits its callback: handleDisconnect calls disconnect.
HandleDisconnect ==
  /\ Rendered = "dashboard" /\ Touchable
  /\ connectCalls = <<>>
  /\ connectCalls' = Append(connectCalls, SdkCall("handleDisconnect"))
  /\ UNCHANGED <<dashboardVars, observed, storeVars, onboardVars, routeVars,
                 dialogs, sendVars, signVars>>

\* onSuccess of handleDisconnect that also removes the stored flag.
SdkCallOnSuccessClearsFlag(k) ==
  /\ k \in DOMAIN connectCalls
  /\ connectCalls' = RemoveAt(connectCalls, k)
  /\ IF connectCalls[k].caller = "handleCreateWallet"
     THEN /\ actionType' = "null"
          /\ MarkOnboardingComplete
          /\ NavigateToScreen("wallet")
     ELSE UNCHANGED <<actionType, storageCalls, navTimers>>
  /\ balance' = IF connectCalls[k].caller = "handleDisconnect" THEN 0
                ELSE balance
  /\ storage' = IF connectCalls[k].caller = "handleDisconnect" THEN NoItem
                ELSE storage
  /\ UNCHANGED <<isConnected, smartWalletPubkey, refreshing, transactions,
                 loadingTransactions, cycles, refreshLog, alerts, chain,
                 observed, reads, currentScreen, isFirstLaunch,
                 isCheckingExistingUser, dialogs, sendVars, signVars,
                 currentStep>>

\* The SDK invokes onSuccess of call k. handleCreateWallet: onComplete(),
\* that is markOnboardingComplete() and navigateToScreen('wallet');
\* handleConnect: a log line; handleDisconnect: setBalance(0).
SdkCallOnSuccess(k) ==
  /\ k \in DOMAIN connectCalls
  /\ connectCalls' = RemoveAt(connectCalls, k)
  /\ IF connectCalls[k].caller = "handleCreateWallet"
     THEN /\ actionType' = "null"
          /\ MarkOnboardingComplete
          /\ NavigateToScreen("wallet")
     ELSE UNCHANGED <<actionType, storageCalls, navTimers>>
  /\ balance' = IF connectCalls[k].caller = "handleDisconnect" THEN 0
                ELSE balance
  /\ UNCHANGED <<isConnected, smartWalletPubkey, refreshing, transactions,
                 loadingTransactions, cycles, refreshLog, alerts, chain,
                 observed, storage, reads, currentScreen, isFirstLaunch,
                 isCheckingExistingUser, dialogs, sendVars, signVars,
                 currentStep>>

\* The SDK invokes onFail of call k: a log line and, in handleCreateWallet,
\* setActionType(null).
SdkCallOnFail(k) ==
  /\ k \in DOMAIN connectCalls
  /\ connectCalls' = RemoveAt(connectCalls, k)
  /\ actionType' = IF connectCalls[k].caller = "handleCreateWallet" THEN "null"
                   ELSE actionType
  /\ UNCHANGED <<dashboardVars, observed, storeVars, routeVars, dialogs,
                 sendVars, signVars, currentStep>>

\* The link of the connect prompt: navigateToScreen('onboarding').
PromptNavigate ==
  /\ Rendered = "connect" /\ Touchable
  /\ NavigateToScreen("onboarding")
  /\ UNCHANGED <<dashboardVars, backstage, signVars, currentScreen,
                 isFirstLaunch, isCheckingExistingUser, dialogs, sendVars>>

\* The Back button of the Receive and of the Transactions screen: onBack.
SubScreenBack(screen) ==
  /\ screen \in {"receive", "transactions"}
  /\ Rendered = screen /\ Touchable
  /\ NavigateToScreen("wallet")
  /\ UNCHANGED <<dashboardVars, backstage, signVars, currentScreen,
                 isFirstLaunch, isCheckingExistingUser, dialogs, sendVars>>

\* The refresh button of the dashboard.
DashboardRefresh ==
  /\ Rendered = "dashboard" /\ Touchable
  /\ HandleRefresh
  /\ UNCHANGED offDashboard

\* ------------------------------------------------------- specifications
\* Nothing has been recorded.
ObservedInit ==
  /\ rpcBalance = <<>>
  /\ completed = <<>>

\* The user-status check has completed for a returning user and the routing
\* effect has selected the 'wallet' screen.
AtWalletInit ==
  /\ currentScreen = "wallet"
  /\ isFirstLaunch = "false"
  /\ isCheckingExistingUser = FALSE
  /\ navTimers = {}

\* SendScreen is not mounted, or has just been mounted.
SendScreenInit ==
  /\ recipient = <<>>
  /\ amount = <<>>
  /\ sendLoading = FALSE
  /\ sendShowResult = FALSE
  /\ txSignature = ""
  /\ submissions = <<>>
  /\ confirms = 0

\* SignMessageScreen is not mounted, or has just been mounted.
\* OnboardingScreen is not mounted, or has just been mounted.
OnboardingScreenInit ==
  /\ currentStep = 0
  /\ actionType = "null"

SignScreenInit ==
  /\ message = DefaultMessage
  /\ signLoading = FALSE
  /\ signShowResult = FALSE
  /\ signature = ""
  /\ signedPayload = ""
  /\ signRequests = <<>>

\* The flag was saved by an earlier onboarding and read at startup; no
\* storage or connect call is outstanding.
ReturningUserInit ==
  /\ storage = "true"
  /\ storageCalls = <<>>
  /\ reads = 1
  /\ connectCalls = <<>>

OffDashboardInit ==
  /\ ObservedInit
  /\ ReturningUserInit
  /\ AtWalletInit
  /\ dialogs = <<>>
  /\ SendScreenInit
  /\ SignScreenInit
  /\ OnboardingScreenInit

Init ==
  /\ isConnected = FALSE
  /\ smartWalletPubkey = NoAddress
  /\ balance = 0
  /\ refreshing = FALSE
  /\ transactions = <<>>
  /\ loadingTransactions = FALSE
  /\ cycles = EmptyBag
  /\ refreshLog = ""
  /\ alerts = {}
  /\ chain \in DashboardChains
  /\ OffDashboardInit

Next ==
  \/ /\ \E sdk \in SdkStates : SdkUpdate(sdk[1], sdk[2])
     /\ UNCHANGED offDashboard
  \/ /\ HandleRefresh
     /\ UNCHANGED offDashboard
  \/ /\ \E cy \in InFlight : \E answer \in BalanceAnswers \cup {RpcError} :
          GetBalanceSettle(cy, answer)
     /\ UNCHANGED offDashboard
  \/ /\ \E cy \in InFlight : \E ok \in BOOLEAN : GetSignaturesSettle(cy, ok)
     /\ UNCHANGED offDashboard
  \/ /\ \E cy \in InFlight : \E i \in DOMAIN cy.sigs :
          \E answer \in DetailAnswers(cy.sigs[i]) :
            GetTransactionSettle(cy, i, answer)
     /\ UNCHANGED offDashboard
  \/ /\ \E cy \in InFlight : FetchTransactionsFinish(cy)
     /\ UNCHANGED offDashboard
  \/ /\ \E cy \in InFlight : HandleRefreshFinally(cy)
     /\ UNCHANGED offDashboard

Spec == Init /\ [][Next]_vars

\* One fetchTransactions run in isolation: the dashboard is connected, a
\* refresh has been started, its getBalance was rejected, and the history
\* branch waits for getSignaturesForAddress.  The chain is any history or
\* classifier chain.
HistoryInit ==
  /\ isConnected = TRUE
  /\ smartWalletPubkey = Addr1
  /\ balance = 0
  /\ refreshing = TRUE
  /\ transactions = <<>>
  /\ loadingTransactions = TRUE
  /\ cycles = SetToBag({[NewCycle("refresh", Addr1) EXCEPT !.bal = "fulfilled"]})
  /\ refreshLog = "Starting refresh for wallet:"
  /\ alerts = {}
  /\ chain \in HistoryChains \cup ClassifierChains
  /\ OffDashboardInit

HistoryNext ==
  \/ /\ \E cy \in InFlight : \E ok \in BOOLEAN : GetSignaturesSettle(cy, ok)
     /\ UNCHANGED offDashboard
  \/ /\ \E cy \in InFlight : \E i \in DOMAIN cy.sigs :
          \E answer \in DetailAnswers(cy.sigs[i]) :
            GetTransactionSettle(cy, i, answer)
     /\ UNCHANGED offDashboard
  \/ /\ \E cy \in InFlight : FetchTransactionsFinish(cy)
     /\ UNCHANGED offDashboard

HistorySpec == HistoryInit /\ [][HistoryNext]_vars

\* The scheduling of the JavaScript event loop: once Promise.allSettled of
\* handleRefresh has both results, the continuation of handleRefresh runs.
FairSpec ==
  Spec /\ WF_vars(/\ \E cy \in InFlight : HandleRefreshFinally(cy)
                  /\ UNCHANGED offDashboard)

\* ------------------------------------------- repeated refresh cycles
\* What getTransaction did for signature i of the cycle.
AnswerAt(cy, i) == (CHOOSE r \in Range(cy.settled) : r.index = i).answer

\* The record of a refresh cycle at its end: what the RPC answered during
\* the cycle and what the dashboard shows after it.
Observation(cy) ==
  [ addr          |-> cy.addr,
    balanceAnswer |-> rpcBalance,
    signaturesOk  |-> ~cy.histError,
    sigs          |-> cy.sigs,
    details       |-> [i \in DOMAIN cy.sigs |-> AnswerAt(cy, i)],
    balance       |-> balance,
    transactions  |-> transactions ]

\* What an earlier load left on the dashboard: a balance of 0.25 SOL and the
\* entry of a signature S0 the RPC no longer lists among the most recent.
StaleBalance == DivLamports(250000000)
StaleTransactions == << ClassifyTransaction(SigRecord("S0"), SignDetail, Addr1) >>

\* The chain of the repeated refreshes: S1 received, S2 sent.
RepeatChains ==
  { ChainOf(<<"S1", "S2">>, [n \in {"S1", "S2"} |-> TouchingDetail(n)]) }

\* The dashboard of a connected wallet after its first load, at rest.
RepeatInit ==
  /\ isConnected = TRUE
  /\ smartWalletPubkey = Addr1
  /\ balance \in {0, StaleBalance}
  /\ refreshing = FALSE
  /\ transactions \in {<<>>, StaleTransactions}
  /\ loadingTransactions = FALSE
  /\ cycles = EmptyBag
  /\ refreshLog = ""
  /\ alerts = {}
  /\ chain \in RepeatChains
  /\ OffDashboardInit

\* Manual refreshes one after the other, the answers of the RPC recorded.
RepeatNext ==
  \/ /\ Len(completed) < MaxRefreshes
     /\ HandleRefresh
     /\ UNCHANGED offDashboard
  \/ /\ \E cy \in InFlight : \E answer \in BalanceAnswers \cup {RpcError} :
          GetBalanceSettle(cy, answer) /\ rpcBalance' = <<answer>>
     /\ UNCHANGED <<completed, screenVars>>
  \/ /\ \E cy \in InFlight : \E ok \in BOOLEAN : GetSignaturesSettle(cy, ok)
     /\ UNCHANGED offDashboard
  \/ /\ \E cy \in InFlight : \E i \in DOMAIN cy.sigs :
          \E answer \in DetailAnswers(cy.sigs[i]) :
            GetTransactionSettle(cy, i, answer)
     /\ UNCHANGED offDashboard
  \/ /\ \E cy \in InFlight : FetchTransactionsFinish(cy)
     /\ UNCHANGED offDashboard
  \/ /\ \E cy \in InFlight :
          HandleRefreshFinally(cy) /\ completed' = Append(completed, Observation(cy))
     /\ UNCHANGED <<rpcBalance, screenVars>>

RepeatSpec == RepeatInit /\ [][RepeatNext]_vars

\* -------------------------------------------------- the Send screen runs
\* What useWallet() may report next in the Send screen runs: the session
\* ends, or the key of the wallet is withdrawn.
SendSdkStates == { <<FALSE, NoAddress>>, <<TRUE, NoAddress>> }

\* Texts the user types or pastes into the recipient field.
RecipientTexts == { <<>>, <<" ", Addr2, " ">>, <<AddrShort>> }

\* Texts the user types or pastes into the amount field:
\* "", "0", "-1", "0.0001", "1.5", "2", ".", "1.2.3", " 1a".
AmountTexts ==
  { <<>>, <<"0">>, <<"-", "1">>, <<"0", ".", "0", "0", "0", "1">>,
    <<"1", ".", "5">>, <<"2">>, <<".">>, <<"1", ".", "2", ".", "3">>,
    <<" ", "1", "a">> }

\* The amounts of the submission runs: "", "1.5", "2".
SendAmountTexts == { <<>>, <<"1", ".", "5">>, <<"2">> }

\* Signatures and errors the SDK hands to the callbacks, and the errors
\* its promises reject with (one of them without a message).
SdkSignatures == { "5VERv8NMvzbJMEkV8xnrLkEaWRtSz9CosKDYjCJjBRnb" }
SdkErrorMessages == { "User cancelled" }
SdkThrownMessages == { "" }

\* A returning user has connected the wallet Addr1 and the load-on-connect
\* effect has run to its end: the dashboard is shown with the balance.
SendInit ==
  /\ isConnected = TRUE
  /\ smartWalletPubkey = Addr1
  /\ balance \in {BalanceOnAnswer(answer) : answer \in BalanceAnswers}
  /\ refreshing = FALSE
  /\ transactions = <<>>
  /\ loadingTransactions = FALSE
  /\ cycles = EmptyBag
  /\ refreshLog = ""
  /\ alerts = {}
  /\ chain \in DashboardChains
  /\ OffDashboardInit

\* The user opens the Send screen from the dashboard, fills the form and
\* sends; the SDK may end the session at any time.
SendNext ==
  \/ \E sdk \in SendSdkStates : WalletUpdate(sdk[1], sdk[2])
  \/ DashboardNavigate("send")
  \/ \E screen \in navTimers : NavigationTimer(screen)
  \/ \E text \in RecipientTexts : HandleRecipientChange(text)
  \/ \E text \in SendAmountTexts : HandleAmountChange(text)
  \/ HandleSend
  \/ \E k \in DOMAIN dialogs : DismissDialog(k)
  \/ \E k \in DOMAIN dialogs : ConfirmSend(k)
  \/ \E k \in DOMAIN submissions : \E sig \in SdkSignatures : SendOnSuccess(k, sig)
  \/ \E k \in DOMAIN submissions : \E m \in SdkErrorMessages : SendOnFail(k, m)
  \/ \E k \in DOMAIN submissions : \E m \in SdkThrownMessages : SendRejects(k, m)
  \/ \E k \in DOMAIN submissions : SendResolves(k)
  \/ SendBack
  \/ SendDone

SendSpec == SendInit /\ [][SendNext]_vars

\* ------------------------------------------------ the Send form runs
\* The user opens the Send screen from the dashboard and fills the form,
\* types or pastes any of the amount texts, uses MAX, presses Send and
\* answers the dialog with 'OK' or 'Cancel'.
FormNext ==
  \/ DashboardNavigate("send")
  \/ \E screen \in navTimers : NavigationTimer(screen)
  \/ \E text \in RecipientTexts : HandleRecipientChange(text)
  \/ \E text \in AmountTexts : HandleAmountChange(text)
  \/ HandleMax
  \/ HandleSend
  \/ \E k \in DOMAIN dialogs : DismissDialog(k)
  \/ SendBack

FormSpec == SendInit /\ [][FormNext]_vars

\* ------------------------------------- the Send and Sign Message screen runs
\* Texts the user types into the message field or picks from the quick
\* messages: "", " ", "I own this wallet address".
MessageTexts ==
  { <<>>, <<" ">>,
    <<"I", " ", "own", " ", "this", " ", "wallet", " ", "address">> }

\* Results the SDK hands to onSuccess or resolves the promise with.
SdkSignResults ==
  { [ signature     |-> "3yZe7dNqGkXwJ8bq5WcHnVtR2uLmPfSa9oKxTgBv1DhC",
      signedPayload |-> "eyJtZXNzYWdlIjoiSSBvd24gdGhpcyB3YWxsZXQifQ" ] }

\* The recipient and the amount of these runs.
ScreensRecipientTexts == { <<" ", Addr2, " ">> }
ScreensAmountTexts == { <<"1", ".", "5">> }

\* The user opens the Send or the Sign Message screen from the dashboard
\* and uses it; the SDK may end the session at any time, and it answers
\* every call with success (onSuccess for a submission, a resolved promise
\* for a signing request).
ScreensNext ==
  \/ \E sdk \in SendSdkStates : WalletUpdate(sdk[1], sdk[2])
  \/ \E screen \in {"send", "sign"} : DashboardNavigate(screen)
  \/ \E screen \in navTimers : NavigationTimer(screen)
  \/ \E text \in ScreensRecipientTexts : HandleRecipientChange(text)
  \/ \E text \in ScreensAmountTexts : HandleAmountChange(text)
  \/ HandleSend
  \/ \E k \in DOMAIN dialogs : DismissDialog(k)
  \/ \E k \in DOMAIN dialogs : ConfirmSend(k)
  \/ \E k \in DOMAIN submissions : \E sig \in SdkSignatures : SendOnSuccess(k, sig)
  \/ SendBack
  \/ SendDone
  \/ \E text \in MessageTexts : SetMessage(text)
  \/ HandleSign
  \/ \E k \in DOMAIN signRequests : \E res \in SdkSignResults :
       SignResolves(k, <<res>>)
  \/ SignBack
  \/ SignDone

ScreensSpec == SendInit /\ [][ScreensNext]_vars

\* ------------------------------------------- the Sign Message screen runs
\* The user opens the Sign Message screen from the dashboard, edits the
\* message and signs; the SDK answers a request through onSuccess, through
\* onFail, by resolving its promise with the result or with undefined, or
\* by rejecting it, and may end the session at any time.
SignSdkStates == { <<FALSE, NoAddress>> }

SignNext ==
  \/ \E sdk \in SignSdkStates : WalletUpdate(sdk[1], sdk[2])
  \/ DashboardNavigate("sign")
  \/ \E screen \in navTimers : NavigationTimer(screen)
  \/ \E text \in MessageTexts : SetMessage(text)
  \/ HandleSign
  \/ \E k \in DOMAIN dialogs : DismissDialog(k)
  \/ \E k \in DOMAIN signRequests : \E res \in SdkSignResults :
       SignOnSuccess(k, res)
  \/ \E k \in DOMAIN signRequests : \E m \in SdkErrorMessages : SignOnFail(k, m)
  \/ \E k \in DOMAIN signRequests : \E res \in SdkSignResults :
       SignResolves(k, <<res>>)
  \/ \E k \in DOMAIN signRequests : SignResolves(k, <<>>)
  \/ \E k \in DOMAIN signRequests : \E m \in SdkThrownMessages : SignRejects(k, m)
  \/ SignBack
  \/ SignDone

SignSpec == SendInit /\ [][SignNext]_vars

\* ------------------------------------------------------ the application runs
\* A wallet without history.
AppChains == { ChainOf(<<>>, [n \in {} |-> ReceiveDetail]) }

\* What useWallet() may report next: the session ends, or Addr1 connects.
AppSdkStates == { <<FALSE, NoAddress>>, <<TRUE, Addr1>> }

\* The screens of the dashboard's action buttons.
SubScreens == { "send", "receive", "sign", "transactions" }

\* WalletScreen has mounted, on a device that holds the flag or does not:
\* useState's initial values, and checkUserStatus awaiting getItem.
AppInit ==
  /\ isConnected = FALSE
  /\ smartWalletPubkey = NoAddress
  /\ balance = 0
  /\ refreshing = FALSE
  /\ transactions = <<>>
  /\ loadingTransactions = FALSE
  /\ cycles = EmptyBag
  /\ refreshLog = ""
  /\ alerts = {}
  /\ chain \in AppChains
  /\ ObservedInit
  /\ storage \in {"true", NoItem}
  /\ CheckUserStatusStart
  /\ connectCalls = <<>>
  /\ currentScreen = "onboarding"
  /\ isFirstLaunch = "null"
  /\ navTimers = {}
  /\ dialogs = <<>>
  /\ SendScreenInit
  /\ SignScreenInit
  /\ OnboardingScreenInit

\* getBalance answers 1.5 SOL in these runs.
AppBalanceAnswers == { 1500000000 }

\* No RPC call is outstanding.
RpcAtRest == cycles = EmptyBag

\* Every submission and every signing request has been answered.
SdkAtRest ==
  /\ \A k \in DOMAIN submissions : submissions[k].callback # "none"
  /\ \A k \in DOMAIN signRequests : signRequests[k].promise # "pending"

AtRest == RpcAtRest /\ SdkAtRest

\* The transition of the last navigateToScreen has ended.
TimerFree == navTimers = {}

\* The user skips to the last step of onboarding and creates a wallet
\* there, connects, refreshes, moves between
\* the screens, resets onboarding and disconnects; the SDK and AsyncStorage
\* answer connect, disconnect and storage calls in any order; the RPC and
\* the SDK answer a fetch, a submission and a signing request before the
\* next event.
AppNext ==
  \/ /\ AtRest
     /\ \E sdk \in AppSdkStates : WalletUpdate(sdk[1], sdk[2])
  \/ /\ AtRest
     /\ \E k \in DOMAIN storageCalls : \E ok \in BOOLEAN :
          CheckUserStatusSettles(k, ok)
  \/ /\ AtRest
     /\ HandleSkip
  \/ /\ AtRest /\ currentStep = LastStep
     /\ HandleNext
  \/ /\ AtRest
     /\ HandleConnect
  \/ /\ AtRest
     /\ HandleDisconnect
  \/ /\ AtRest
     /\ \E k \in DOMAIN connectCalls : SdkCallOnSuccess(k)
  \/ /\ AtRest
     /\ \E k \in DOMAIN connectCalls : SdkCallOnFail(k)
  \/ /\ AtRest
     /\ \E k \in DOMAIN storageCalls : \E ok \in BOOLEAN :
          MarkOnboardingCompleteSettles(k, ok)
  \/ /\ AtRest
     /\ ResetOnboarding
  \/ /\ AtRest
     /\ \E k \in DOMAIN storageCalls : \E ok \in BOOLEAN :
          ResetOnboardingSettles(k, ok)
  \/ /\ AtRest /\ TimerFree
     /\ PromptNavigate
  \/ /\ AtRest /\ TimerFree
     /\ \E screen \in SubScreens : DashboardNavigate(screen)
  \/ /\ AtRest
     /\ \E screen \in navTimers : NavigationTimer(screen)
  \/ /\ AtRest /\ TimerFree
     /\ SendBack
  \/ /\ AtRest /\ TimerFree
     /\ SignBack
  \/ /\ AtRest /\ TimerFree
     /\ \E screen \in SubScreens : SubScreenBack(screen)
  \/ /\ AtRest
     /\ \E k \in DOMAIN dialogs : DismissDialog(k)
  \/ /\ AtRest
     /\ DashboardRefresh
  \/ /\ AtRest
     /\ \E text \in ScreensRecipientTexts : HandleRecipientChange(text)
  \/ /\ AtRest
     /\ \E text \in ScreensAmountTexts : HandleAmountChange(text)
  \/ /\ AtRest
     /\ HandleSend
  \/ /\ AtRest
     /\ \E k \in DOMAIN dialogs : ConfirmSend(k)
  \/ /\ RpcAtRest
     /\ \E k \in DOMAIN submissions : \E sig \in SdkSignatures :
          SendOnSuccess(k, sig)
  \/ /\ AtRest /\ TimerFree
     /\ SendDone
  \/ /\ AtRest
     /\ HandleSign
  \/ /\ RpcAtRest
     /\ \E k \in DOMAIN signRequests : \E res \in SdkSignResults :
          SignResolves(k, <<res>>)
  \/ /\ AtRest /\ TimerFree
     /\ SignDone
  \/ /\ \E cy \in InFlight : \E answer \in AppBalanceAnswers :
          GetBalanceSettle(cy, answer)
     /\ UNCHANGED offDashboard
  \/ /\ \E cy \in InFlight : GetSignaturesSettle(cy, TRUE)
     /\ UNCHANGED offDashboard
  \/ /\ \E cy \in InFlight : FetchTransactionsFinish(cy)
     /\ UNCHANGED offDashboard
  \/ /\ \E cy \in InFlight : HandleRefreshFinally(cy)
     /\ UNCHANGED offDashboard

AppSpec == AppInit /\ [][AppNext]_vars

\* ------------------------------------------------- the onboarding runs
\* Where the pager may come to rest, as handleScroll computes it: a page,
\* or one beyond either end.
ScrollSteps == -1 .. StepCount

\* The user pages through onboarding with the buttons and by swiping, and
\* creates a wallet or logs in; the SDK answers connect through either
\* callback and changes the wallet state; AsyncStorage answers or rejects;
\* the link of the connect prompt leads back to onboarding.
OnboardingNext ==
  \/ \E k \in DOMAIN storageCalls : \E ok \in BOOLEAN :
       CheckUserStatusSettles(k, ok)
  \/ HandleNext
  \/ HandleLogin
  \/ HandleSkip
  \/ \E step \in ScrollSteps : HandleScroll(step)
  \/ \E k \in DOMAIN connectCalls : SdkCallOnSuccess(k)
  \/ \E k \in DOMAIN connectCalls : SdkCallOnFail(k)
  \/ /\ RpcAtRest
     /\ \E sdk \in AppSdkStates : WalletUpdate(sdk[1], sdk[2])
  \/ \E k \in DOMAIN storageCalls : \E ok \in BOOLEAN :
       MarkOnboardingCompleteSettles(k, ok)
  \/ /\ TimerFree
     /\ PromptNavigate
  \/ \E screen \in navTimers : NavigationTimer(screen)
  \/ /\ \E cy \in InFlight : \E answer \in AppBalanceAnswers :
          GetBalanceSettle(cy, answer)
     /\ UNCHANGED offDashboard
  \/ /\ \E cy \in InFlight : GetSignaturesSettle(cy, TRUE)
     /\ UNCHANGED offDashboard
  \/ /\ \E cy \in InFlight : FetchTransactionsFinish(cy)
     /\ UNCHANGED offDashboard

OnboardingSpec == AppInit /\ [][OnboardingNext]_vars

\* --------------------------------------------------------------- claims
RefreshCycles == {cy \in InFlight : cy.origin = "refresh"}
EffectCycles == {cy \in InFlight : cy.origin = "effect"}

\* How many refresh-started cycles are in flight (with their copies).
NumRefreshCycles ==
  BagCardinality([cy \in RefreshCycles |-> CopiesIn(cy, cycles)])

NumCycles == BagCardinality(cycles)

\* C1: a handleRefresh call made while a refresh cycle is in flight starts
\* no fetch cycle and changes no dashboard state; refreshing goes from false
\* to true only together with the start of exactly one cycle (one
\* fetchBalance and one fetchTransactions), and from true to false only in
\* the finally block of that cycle.
C1_RefreshSuppression ==
  [][ /\ (HandleRefresh /\ NumRefreshCycles > 0) =>
           /\ cycles' = cycles
           /\ UNCHANGED <<refreshing, balance, transactions, loadingTransactions>>
      /\ (~refreshing /\ refreshing') =>
           /\ NumRefreshCycles = 0
           /\ NumRefreshCycles' = 1
           /\ NumCycles' = NumCycles + 1
      /\ (refreshing /\ ~refreshing') =>
           /\ NumRefreshCycles = 1
           /\ NumRefreshCycles' = 0
           /\ NumCycles' = NumCycles - 1
    ]_vars

\* A second call was made, and skipped, while the first cycle has an RPC
\* call outstanding.
C1_Witness ==
  /\ refreshing
  /\ refreshLog = "Already refreshing, skipping"
  /\ \E cy \in RefreshCycles : cy.bal = "pending" /\ cy.hist = "signatures"

C3_RefreshingCleared ==
  /\ [](NumRefreshCycles = 0 => ~refreshing)
  /\ (\E cy \in RefreshCycles : BothSettled(cy)) ~> ~refreshing

\* Both branches of a refresh cycle have settled, the balance branch through
\* its catch block and the history branch with a list; refreshing is still true.
C3_Witness ==
  /\ refreshing
  /\ \E cy \in RefreshCycles :
       BothSettled(cy) /\ cy.balError /\ ~cy.histError

\* The history branches awaiting an RPC answer, with their progress.
HistoryProgress(cy) == <<cy.origin, cy.addr, cy.hist, cy.sigs, cy.settled>>
HistoryPending(cy) == cy.hist \in {"signatures", "details"}
PendingHistories ==
  [ h \in {HistoryProgress(cy) : cy \in {c \in InFlight : HistoryPending(c)}} |->
      BagCardinality([cy \in {c \in InFlight : HistoryProgress(c) = h} |->
                        CopiesIn(cy, cycles)]) ]

\* The balance branches awaiting getBalance.
BalanceProgress(cy) == <<cy.origin, cy.addr, cy.bal>>
PendingBalances ==
  [ b \in {BalanceProgress(cy) : cy \in {c \in InFlight : c.bal = "pending"}} |->
      BagCardinality([cy \in {c \in InFlight : BalanceProgress(c) = b} |->
                        CopiesIn(cy, cycles)]) ]

NonNullResults(cy) == {r \in Range(cy.settled) : r.result # Null}

\* C4: the step in which getBalance fails changes neither the transaction
\* list nor the flag nor the progress of any history branch; the step in
\* which getSignaturesForAddress fails changes neither the balance nor any
\* pending balance branch; a history branch whose cycle's balance branch has
\* failed still delivers every entry it produced.
C4_BranchIsolation ==
  [][ /\ \A cy \in InFlight :
           GetBalanceSettle(cy, RpcError) =>
             /\ UNCHANGED <<transactions, loadingTransactions>>
             /\ PendingHistories' = PendingHistories
      /\ \A cy \in InFlight :
           GetSignaturesSettle(cy, FALSE) =>
             /\ UNCHANGED balance
             /\ PendingBalances' = PendingBalances
      /\ \A cy \in InFlight :
           (cy.balError /\ FetchTransactionsFinish(cy)) =>
             Len(transactions') = Cardinality(NonNullResults(cy))
    ]_vars

\* A refresh cycle whose getBalance was rejected and whose history branch
\* delivered the entry of S1, which is the list shown.
C4_Witness ==
  \E cy \in RefreshCycles :
    /\ cy.addr = Addr1 /\ cy.balError /\ cy.bal = "fulfilled"
    /\ cy.hist = "fulfilled" /\ ~cy.histError
    /\ Len(cy.settled) = 1 /\ cy.settled[1].result # Null
    /\ transactions = <<cy.settled[1].result>>
    /\ balance = 0

\* The addresses fetchBalance rejects before any RPC call.
BadLength(a) == Len(a) < 32 \/ Len(a) > 44
Malformed(a) == a # NoAddress /\ (BadLength(a) \/ a = AddrNotKey)

Delivered(cy) ==
  cy.hist = "fulfilled" /\ ~cy.histError /\ Len(cy.settled) = Len(cy.sigs)

StoredKeys(sig) == Range(chain.transactions[sig.signature].staticAccountKeys)

ListedSignatures == {transactions[k].signature : k \in DOMAIN transactions}

EntryOf(name) == CHOOSE e \in Range(transactions) : e.signature = name

\* C5: a signature whose getTransaction threw or answered null has no entry
\* in the delivered list, every signature answered with a transaction that
\* touches the wallet has its classified entry, no entry is a placeholder,
\* and a throwing getTransaction never takes the history fetch to its catch
\* block.
C5_FetchIsolation ==
  \A cy \in RefreshCycles :
    /\ (\E r \in Range(cy.settled) : r.answer = "throw") =>
         ~cy.histError /\ cy.hist # "rejected"
    /\ Delivered(cy) =>
         /\ \A i \in DOMAIN cy.sigs :
              AnswerAt(cy, i) \in {"throw", "null"} =>
                cy.sigs[i].signature \notin ListedSignatures
         /\ \A i \in DOMAIN cy.sigs :
              (AnswerAt(cy, i) = "tx" /\ cy.addr \in StoredKeys(cy.sigs[i])) =>
                cy.sigs[i].signature \in ListedSignatures
         /\ \A k \in DOMAIN transactions :
              /\ transactions[k].type \in {"sign", "receive", "send"}
              /\ transactions[k].status \in {"confirmed", "finalized", "processed"}

\* Signatures [S1, S2, S3], S2 threw, the list is the entries of S1 and S3.
C5_Witness ==
  \E cy \in RefreshCycles :
    /\ Delivered(cy)
    /\ [i \in DOMAIN cy.sigs |-> cy.sigs[i].signature] = <<"S1", "S2", "S3">>
    /\ AnswerAt(cy, 1) = "tx" /\ AnswerAt(cy, 2) = "throw" /\ AnswerAt(cy, 3) = "tx"
    /\ [k \in DOMAIN transactions |-> transactions[k].signature] = <<"S1", "S3">>
    /\ transactions[1].type = "receive" /\ transactions[2].type = "sign"

PositionOf(cy, name) == CHOOSE i \in DOMAIN cy.sigs : cy.sigs[i].signature = name

\* C6: every getTransaction call is outstanding at once, and the delivered
\* list is in the order of the signature list, whatever the settle order.
C6_OrderPreserved ==
  \A cy \in RefreshCycles :
    /\ (cy.hist = "details" /\ cy.settled = <<>>) =>
         \A i \in DOMAIN cy.sigs : ENABLED GetTransactionSettle(cy, i, Null)
    /\ Delivered(cy) =>
         \A j, k \in DOMAIN transactions :
           j < k => PositionOf(cy, transactions[j].signature)
                      < PositionOf(cy, transactions[k].signature)

\* Three signatures settled last-to-first, all listed, in signature order.
C6_Witness ==
  \E cy \in RefreshCycles :
    /\ Delivered(cy)
    /\ Len(cy.sigs) = 3
    /\ [k \in DOMAIN cy.settled |-> cy.settled[k].index] = <<3, 2, 1>>
    /\ [k \in DOMAIN transactions |-> transactions[k].signature]
         = [i \in DOMAIN cy.sigs |-> cy.sigs[i].signature]

\* The signatures answered with a transaction whose keys hold the wallet.
Classifiable(cy) ==
  {i \in DOMAIN cy.sigs :
     AnswerAt(cy, i) = "tx" /\ cy.addr \in StoredKeys(cy.sigs[i])}

\* C7: the delivered list has exactly one entry per signature answered with
\* a transaction that holds the wallet address, none for any other, and is
\* shorter than the signature list when a transaction lacks the address.
C7_ExactlyTheClassifiable ==
  \A cy \in RefreshCycles :
    Delivered(cy) =>
      /\ Len(transactions) = Cardinality(Classifiable(cy))
      /\ ListedSignatures = {cy.sigs[i].signature : i \in Classifiable(cy)}
      /\ (\E i \in DOMAIN cy.sigs : cy.addr \notin StoredKeys(cy.sigs[i])) =>
           Len(transactions) < Len(cy.sigs)

\* Three transactions fetched, exactly one of them without the wallet.
C7_Witness ==
  \E cy \in RefreshCycles :
    /\ Delivered(cy)
    /\ Len(cy.sigs) = 3
    /\ \A i \in DOMAIN cy.sigs : AnswerAt(cy, i) = "tx"
    /\ Cardinality({i \in DOMAIN cy.sigs : cy.addr \notin StoredKeys(cy.sigs[i])}) = 1
    /\ Len(transactions) = 2

\* The balance change of the wallet in the stored transaction, in lamports,
\* a missing pre or post balance counting as 0.
WalletIndex(tx, addr) == CHOOSE i \in DOMAIN tx.staticAccountKeys :
                            tx.staticAccountKeys[i] = addr
LamportsAt(arr, i) == IF i \in DOMAIN arr THEN arr[i] ELSE 0
LamportChange(tx, addr) ==
  LamportsAt(tx.postBalances, WalletIndex(tx, addr))
    - LamportsAt(tx.preBalances, WalletIndex(tx, addr))

StoredChange(cy, i) == LamportChange(chain.transactions[cy.sigs[i].signature], cy.addr)

\* C8: a change of fewer than 1000 lamports either way is listed as 'sign',
\* 'Message Signed', 'No transfer'; a change of 1000 lamports or more is
\* never 'sign'.
C8_DeadZone ==
  \A cy \in RefreshCycles :
    Delivered(cy) =>
      \A i \in Classifiable(cy) :
        LET e == EntryOf(cy.sigs[i].signature)
            d == StoredChange(cy, i)
        IN  /\ (-1000 < d /\ d < 1000) =>
                 /\ e.type = "sign"
                 /\ e.title = "Message Signed"
                 /\ e.amount = "No transfer"
            /\ (d <= -1000 \/ d >= 1000) => e.type # "sign"

\* preBalances absent (read as 0), post balance 999 lamports: listed 'sign'.
C8_Witness ==
  \E cy \in RefreshCycles :
    /\ Delivered(cy)
    /\ Classifiable(cy) = {1}
    /\ chain.transactions["S1"].preBalances = <<>>
    /\ chain.transactions["S1"].postBalances = <<5000, 999>>
    /\ transactions[1].type = "sign"

\* The amount strings the dashboard must show for some changes (lamports).
ExpectedAmount(d) ==
  CASE d = 500000000   -> "+0.5000 SOL"
    [] d = -250000000  -> "-0.2500 SOL"
    [] d = 1500000000  -> "+1.5000 SOL"
    [] d = -1500000000 -> "-1.5000 SOL"
    [] d = 750000000   -> "+0.7500 SOL"
    [] d = 249999000   -> "+0.2500 SOL"
    [] d = -749999001  -> "-0.7500 SOL"
    [] d = 1000        -> "+0.0000 SOL"
    [] d = -1001       -> "-0.0000 SOL"
    [] OTHER           -> ""

\* C9: outside the dead-zone a positive change is listed as 'receive',
\* 'Received SOL' and "+x.xxxx SOL", a negative one as 'send', 'Sent SOL'
\* and "-x.xxxx SOL".
C9_SignCorrectness ==
  \A cy \in RefreshCycles :
    Delivered(cy) =>
      \A i \in Classifiable(cy) :
        LET e == EntryOf(cy.sigs[i].signature)
            d == StoredChange(cy, i)
        IN  /\ d >= 1000 => e.type = "receive" /\ e.title = "Received SOL"
            /\ d <= -1000 => e.type = "send" /\ e.title = "Sent SOL"
            /\ ((d >= 1000 \/ d <= -1000) /\ ExpectedAmount(d) # "") =>
                 e.amount = ExpectedAmount(d)

\* S1 gained 0.5 SOL and S2 lost 0.25 SOL: '+0.5000 SOL' and '-0.2500 SOL'.
C9_Witness ==
  \E cy \in RefreshCycles :
    /\ Delivered(cy)
    /\ Len(transactions) = 2
    /\ StoredChange(cy, PositionOf(cy, "S1")) = 500000000
    /\ StoredChange(cy, PositionOf(cy, "S2")) = -250000000
    /\ EntryOf("S1").amount = "+0.5000 SOL" /\ EntryOf("S1").type = "receive"
    /\ EntryOf("S2").amount = "-0.2500 SOL" /\ EntryOf("S2").type = "send"

\* ------------------------------------ claims on failure and disconnect
\* The addresses new PublicKey rejects.
Unparsable(a) == a \in {AddrShort, AddrNotKey}

\* C11: every top-level failure of fetchTransactions at a non-empty address
\* (the parse of the address, a rejected getSignaturesForAddress) empties
\* the transaction list, sets loadingTransactions to false and shows no
\* alert, and the promise of fetchTransactions never rejects.
C11_HistoryFailurePolicy ==
  /\ [](\A cy \in InFlight : cy.hist # "rejected")
  /\ [][ /\ \A cy \in InFlight :
              GetSignaturesSettle(cy, FALSE) =>
                /\ transactions' = <<>>
                /\ loadingTransactions' = FALSE
                /\ alerts' = alerts
         /\ \A a \in Addresses :
              (Unparsable(a) /\ SdkUpdate(TRUE, a)) =>
                /\ transactions' = <<>>
                /\ loadingTransactions' = FALSE
                /\ alerts' = alerts
         /\ (Unparsable(walletAddress) /\ ~refreshing /\ HandleRefresh) =>
                /\ transactions' = <<>>
                /\ loadingTransactions' = FALSE
                /\ alerts' = alerts
       ]_vars

\* A refresh at a valid address whose getSignaturesForAddress was rejected
\* while getBalance is still outstanding: the list is empty, the flag is
\* false, no alert.
C11_Witness ==
  /\ transactions = <<>>
  /\ ~loadingTransactions
  /\ alerts = {}
  /\ \E cy \in RefreshCycles :
       /\ cy.addr = Addr1 /\ cy.histError /\ cy.hist = "fulfilled"
       /\ cy.bal = "pending"

\* C12: the step in which isConnected becomes false or the wallet address
\* becomes empty sets the balance to 0 and the list to empty and starts no
\* fetch; handleRefresh at an empty address changes nothing; fetchBalance
\* and fetchTransactions at an empty address return before their try block.
C12_ClearingOnDisconnect ==
  /\ [](/\ FetchBalanceSkips(NoAddress)
        /\ FetchTransactionsSkips(NoAddress)
        /\ LET cy == NewCycle("effect", NoAddress)
           IN  BothSettled(cy) /\ ~cy.balError /\ ~cy.histError)
  /\ [][ /\ \A sdk \in SdkStates :
              (SdkUpdate(sdk[1], sdk[2]) /\ (~sdk[1] \/ sdk[2] = NoAddress)) =>
                /\ balance' = 0
                /\ transactions' = <<>>
                /\ cycles' = cycles
         /\ (walletAddress = NoAddress /\ HandleRefresh) =>
                UNCHANGED <<balance, refreshing, transactions,
                            loadingTransactions, cycles, alerts>>
       ]_vars

\* The wallet was disconnected while a load of Addr1 had both RPC calls
\* outstanding: balance and list are cleared, no cycle was added.
C12_Witness ==
  /\ ~isConnected
  /\ smartWalletPubkey = NoAddress
  /\ balance = 0
  /\ transactions = <<>>
  /\ NumCycles = 1
  /\ \E cy \in EffectCycles :
       cy.addr = Addr1 /\ cy.bal = "pending" /\ cy.hist = "signatures"

\* ------------------------------------------ claims on repeated refreshes
\* Two refresh cycles got the same answers from the RPC.
SameAnswers(a, b) ==
  /\ a.addr = b.addr
  /\ a.balanceAnswer = b.balanceAnswer
  /\ a.signaturesOk = b.signaturesOk
  /\ a.sigs = b.sigs
  /\ a.details = b.details

\* C13: two consecutive complete refresh cycles at the same address with the
\* same RPC answers end with the same balance and the same list; the list a
\* cycle ends with holds entries of that cycle's signatures only, each at
\* most once, whatever the list was before.
C13_RefreshIdempotence ==
  /\ \A k \in 1..(Len(completed) - 1) :
       SameAnswers(completed[k], completed[k + 1]) =>
         /\ completed[k].balance = completed[k + 1].balance
         /\ completed[k].transactions = completed[k + 1].transactions
  /\ \A k \in DOMAIN completed :
       LET list == completed[k].transactions
           names == {completed[k].sigs[i].signature : i \in DOMAIN completed[k].sigs}
       IN  /\ \A j \in DOMAIN list : list[j].signature \in names
           /\ \A i, j \in DOMAIN list : list[i].signature = list[j].signature => i = j

\* Two cycles, each answered 1.5 SOL and both transactions: the same two
\* entries and the same balance after each.
C13_Witness ==
  /\ Len(completed) >= 2
  /\ SameAnswers(completed[1], completed[2])
  /\ completed[2].balanceAnswer = <<1500000000>>
  /\ completed[2].details = <<"tx", "tx">>
  /\ Len(completed[2].transactions) = 2
  /\ completed[2].balance = 1500000000
  /\ completed[1].transactions = completed[2].transactions

\* ------------------------------------------------ claims on SendScreen
\* The form as handleSend reads it.
TypedRecipient == Join(recipient)
TypedAmount == ParseFloat(amount)

\* Every condition of a send holds: connected with a key, both fields
\* filled, the recipient a public key, the amount a number in (0, balance].
PressOk ==
  /\ isConnected
  /\ smartWalletPubkey # NoAddress
  /\ recipient # <<>>
  /\ amount # <<>>
  /\ TypedRecipient \in {Addr1, Addr2, OtherKey}
  /\ ~TypedAmount.nan
  /\ TypedAmount.value > 0
  /\ TypedAmount.value <= balance

\* The alert of the first check that fails.
ExpectedSendError ==
  IF ~isConnected \/ smartWalletPubkey = NoAddress THEN "Wallet not connected"
  ELSE IF recipient = <<>> \/ amount = <<>> THEN "Please fill in all fields"
  ELSE IF TypedRecipient \notin {Addr1, Addr2, OtherKey}
    THEN "Invalid recipient address. Please enter a valid Solana address."
  ELSE IF TypedAmount.nan \/ TypedAmount.value <= 0
    THEN "Invalid amount. Please enter a valid number."
  ELSE "Insufficient balance. Available: " \o ToFixed(balance, 4) \o " SOL"

ConfirmDialogs == {k \in DOMAIN dialogs : dialogs[k].onSend # <<>>}

NotConnectedAlert ==
  [ title |-> "Error", message |-> "Wallet not connected", onSend |-> <<>> ]

\* C15: a press of Send while isConnected is false or the key of the wallet
\* is absent, and a press of Sign Message while isConnected is false, opens
\* the 'Wallet not connected' alert whatever the fields hold, and changes
\* neither the loading flag, the result state nor the calls made on either
\* screen; every call of signAndSendTransaction comes from a press made
\* with a key present, every call of signMessage is made while connected.
C15_ConnectionGate ==
  [][ /\ (HandleSend /\ (~isConnected \/ smartWalletPubkey = NoAddress)) =>
           /\ dialogs' = Append(dialogs, NotConnectedAlert)
           /\ UNCHANGED <<sendVars, signVars>>
      /\ (HandleSign /\ ~isConnected) =>
           /\ dialogs' = Append(dialogs, NotConnectedAlert)
           /\ UNCHANGED <<sendVars, signVars>>
      /\ Len(submissions') > Len(submissions) =>
           submissions'[Len(submissions')].from # NoAddress
      /\ Len(signRequests') > Len(signRequests) => isConnected
    ]_vars

\* The key of the wallet was withdrawn while the Send screen was open with
\* empty fields: the press of Send opened the connection alert, not the
\* required-field alert, and nothing else changed.
C15_Witness ==
  /\ Rendered = "send"
  /\ isConnected
  /\ smartWalletPubkey = NoAddress
  /\ recipient = <<>>
  /\ amount = <<>>
  /\ dialogs = << NotConnectedAlert >>
  /\ ~sendLoading
  /\ ~sendShowResult
  /\ submissions = <<>>

\* The amount handleSend parses.
ParsedAmount == ParseFloat(Trim(amount))

\* Connected with a key, both fields filled, the recipient a public key.
AmountDecides ==
  /\ isConnected
  /\ smartWalletPubkey # NoAddress
  /\ recipient # <<>>
  /\ amount # <<>>
  /\ TypedRecipient \in {Addr1, Addr2, OtherKey}

FailsNow(k) ==
  /\ k \in DOMAIN submissions
  /\ Len(submissions') = Len(submissions)
  /\ \/ submissions[k].callback # "fail" /\ submissions'[k].callback = "fail"
     \/ submissions[k].promise # "rejected" /\ submissions'[k].promise = "rejected"

\* The failure alerts of the Send screen.
IsFailureAlert(d) ==
  /\ d.onSend = <<>>
  /\ \/ d.title = "Transaction Failed"
        /\ d.message \in {"User cancelled", "Transaction failed. Please try again."}
     \/ d.title = "Error"
        /\ d.message \in {"User cancelled",
                           "Failed to send transaction. Please try again."}

\* C17: the calls of signAndSendTransaction never outnumber the 'Send'
\* choices made in confirmation dialogs, and each call is made by such a
\* choice; when a submission fails (onFail, or a rejected promise) a failure
\* alert is opened, no call is made, the success modal and the signature
\* are left as they were and, on the screen that made the submission, loading
\* becomes false; with no other submission of that screen, loading is false
\* and the success modal is not shown.
C17_NoAutomaticRetry ==
  /\ [](Len(submissions) <= confirms)
  /\ [][ /\ Len(submissions') > Len(submissions) =>
             /\ Len(submissions') = Len(submissions) + 1
             /\ confirms' = confirms + 1
             /\ dialogs # <<>>
             /\ dialogs[1].title = "Confirm Transaction"
             /\ dialogs' = Tail(dialogs)
        /\ Len(submissions') >= Len(submissions)
        /\ \A k \in DOMAIN submissions : FailsNow(k) =>
             /\ Len(dialogs') = Len(dialogs) + 1
             /\ SubSeq(dialogs', 1, Len(dialogs)) = dialogs
             /\ IsFailureAlert(dialogs'[Len(dialogs')])
             /\ UNCHANGED <<sendShowResult, txSignature, confirms>>
             /\ submissions[k].live => ~sendLoading'
             /\ ~submissions[k].live => UNCHANGED sendLoading
             /\ (submissions[k].live
                   /\ \A j \in DOMAIN submissions \ {k} : ~submissions[j].live) =>
                  ~sendLoading' /\ ~sendShowResult'
      ]_vars

\* The one submission made was reported failed through onFail: the alert is
\* open, the button is enabled again, nothing was sent a second time.
C17_Witness ==
  /\ Rendered = "send"
  /\ confirms = 1
  /\ Len(submissions) = 1
  /\ submissions[1].live
  /\ submissions[1].callback = "fail"
  /\ dialogs # <<>>
  /\ dialogs[Len(dialogs)].title = "Transaction Failed"
  /\ ~sendLoading
  /\ ~sendShowResult

\* The storage calls awaiting their result, by operation.
PendingCalls(op) == {k \in DOMAIN storageCalls : storageCalls[k].op = op}

\* The callers whose connect or disconnect call awaits its callback.
PendingCallers == {connectCalls[k].caller : k \in DOMAIN connectCalls}

\* C18: every AsyncStorage call names the key hasCompletedOnboarding; one
\* getItem is made, at startup, and none later; the stored value changes
\* only to 'true' when a setItem call succeeds and only to absent when a
\* removeItem call succeeds; a setItem call is made only by the onSuccess
\* callback of a connect call of the onboarding screen; a removeItem call
\* is made only by the Reset Onboarding button of the dashboard; refresh,
\* connect, disconnect, send and sign, their callbacks and the changes of
\* the wallet state leave the stored value and the storage calls alone.
C18_PersistedFlag ==
  /\ [](/\ \A k \in DOMAIN storageCalls :
             /\ storageCalls[k].key = "hasCompletedOnboarding"
             /\ storageCalls[k].op \in {"getItem", "setItem", "removeItem"}
             /\ storageCalls[k].op = "setItem" => storageCalls[k].value = "true"
        /\ reads = 1
        /\ Cardinality(PendingCalls("getItem")) <= 1
        /\ PendingCalls("getItem") # {} => isCheckingExistingUser
        /\ storage \in {"true", ""})
  /\ [][ /\ Cardinality(PendingCalls("getItem")') <= Cardinality(PendingCalls("getItem"))
         /\ storage' # storage =>
              \/ /\ storage' = "true"
                 /\ Cardinality(PendingCalls("setItem")') =
                      Cardinality(PendingCalls("setItem")) - 1
                 /\ Len(storageCalls') = Len(storageCalls) - 1
              \/ /\ storage' = ""
                 /\ Cardinality(PendingCalls("removeItem")') =
                      Cardinality(PendingCalls("removeItem")) - 1
                 /\ Len(storageCalls') = Len(storageCalls) - 1
         /\ Cardinality(PendingCalls("setItem")') > Cardinality(PendingCalls("setItem")) =>
              /\ "handleCreateWallet" \in PendingCallers
              /\ Len(connectCalls') = Len(connectCalls) - 1
              /\ storageCalls' = Append(storageCalls,
                    [ op |-> "setItem", key |-> "hasCompletedOnboarding",
                      value |-> "true" ])
         /\ Cardinality(PendingCalls("removeItem")') >
               Cardinality(PendingCalls("removeItem")) =>
              /\ Rendered = "dashboard"
              /\ UNCHANGED <<dashboardVars, connectCalls, sendVars, signVars>>
         /\ ( \/ DashboardRefresh
              \/ HandleConnect
              \/ HandleDisconnect
              \/ \E k \in DOMAIN connectCalls :
                   /\ connectCalls[k].caller # "handleCreateWallet"
                   /\ SdkCallOnSuccess(k) \/ SdkCallOnFail(k)
              \/ \E sdk \in AppSdkStates : WalletUpdate(sdk[1], sdk[2])
              \/ cycles' # cycles
              \/ HandleSend
              \/ \E k \in DOMAIN dialogs : ConfirmSend(k)
              \/ \E k \in DOMAIN submissions : \E sig \in SdkSignatures :
                   SendOnSuccess(k, sig)
              \/ HandleSign
              \/ \E k \in DOMAIN signRequests : \E res \in SdkSignResults :
                   SignResolves(k, <<res>>) )
            => UNCHANGED <<storage, storageCalls, reads>>
       ]_vars

\* A first-time user has connected through the onboarding screen: the
\* wallet is connected, markOnboardingComplete awaits its setItem call and
\* the flag is not stored yet.
C18_Witness ==
  /\ isConnected
  /\ storage = ""
  /\ isFirstLaunch = "true"
  /\ ~isCheckingExistingUser
  /\ storageCalls = << [ op |-> "setItem", key |-> "hasCompletedOnboarding",
                         value |-> "true" ] >>
  /\ connectCalls = <<>>
  /\ reads = 1

\* The user-status check has completed.
StatusChecked == isFirstLaunch # "null" /\ ~isCheckingExistingUser

\* What the routing effect depends on.
RoutingInputs == <<isConnected, isFirstLaunch, isCheckingExistingUser>>

\* The session ends while one of the four sub-screens is selected.
DisconnectOnSubScreen ==
  /\ StatusChecked
  /\ isConnected
  /\ ~isConnected'
  /\ currentScreen \in {"send", "receive", "sign", "transactions"}

\* The routing rule: after a change of isConnected, isFirstLaunch or the
\* checking flag that leaves the status check completed, the selected
\* screen is 'wallet' when connected, 'onboarding' when not connected on a
\* first launch, 'wallet' when not connected otherwise; the dashboard is
\* rendered only when connected.
RoutingRule ==
  /\ [](Rendered = "dashboard" => isConnected)
  /\ []((isFirstLaunch = "true" /\ ~isConnected) => Rendered # "dashboard")
  /\ [][ (RoutingInputs' # RoutingInputs /\ StatusChecked') =>
           currentScreen' = IF isConnected' THEN "wallet"
                            ELSE IF isFirstLaunch' = "true" THEN "onboarding"
                            ELSE "wallet"
       ]_vars

\* C19 as stated: the routing rule, and a disconnect while on the send,
\* receive, sign or transactions screen selects 'wallet'.
C19_Original ==
  /\ RoutingRule
  /\ [][ DisconnectOnSubScreen => currentScreen' = "wallet" ]_vars

\* C19: the routing rule holds; a first-time user who is not connected
\* never sees the dashboard; a disconnect while on the send, receive, sign
\* or transactions screen selects 'wallet' for a returning user and
\* 'onboarding' while isFirstLaunch is true.
C19_ScreenRouting ==
  /\ RoutingRule
  /\ [][ DisconnectOnSubScreen =>
           /\ isFirstLaunch = "false" => currentScreen' = "wallet"
           /\ isFirstLaunch = "true" => currentScreen' = "onboarding"
           /\ Rendered' # "dashboard"
       ]_vars

\* The session ended while the Send screen was open and isFirstLaunch was
\* true: the Send screen is gone (its submission is detached), the
\* onboarding screen is selected.
C19_Witness ==
  /\ StatusChecked
  /\ ~isConnected
  /\ isFirstLaunch = "true"
  /\ currentScreen = "onboarding"
  /\ navTimers = {}
  /\ storageCalls = <<>>
  /\ Len(submissions) = 1
  /\ ~submissions[1].live

\* C20: when getBalance answers L lamports, the balance becomes L / 10^9
\* (L nano-units in fixed point), whatever it was before, and is not
\* negative; the balance is never negative; a balance fetched as
\* 1500000000 lamports is displayed as "1.5000".
C20_BalanceConversion ==
  /\ [](/\ balance >= 0
        /\ ToFixed(BalanceOnAnswer(1500000000), 4) = "1.5000"
        /\ balance = 1500000000 * (NanoPerUnit \div 1000000000) =>
             ToFixed(balance, 4) = "1.5000")
  /\ [][ \A cy \in InFlight : \A L \in BalanceAnswers :
           GetBalanceSettle(cy, L) =>
             /\ balance' = L * (NanoPerUnit \div 1000000000)
             /\ balance' >= 0
       ]_vars

\* getBalance has answered 1500000000 lamports for the connected wallet
\* while its history is still being fetched: the balance is 1.5.
C20_Witness ==
  /\ isConnected
  /\ balance = 1500000000 * (NanoPerUnit \div 1000000000)
  /\ ToFixed(balance, 4) = "1.5000"
  /\ \E cy \in InFlight :
       /\ cy.bal = "fulfilled"
       /\ ~cy.balError
       /\ cy.hist # "fulfilled"

\* ------------------------------------------------ claims on late answers
\* The wallet is not usable: the else branch of the load effect has run.
Cleared == ~isConnected \/ walletAddress = NoAddress

\* C21: while the wallet is disconnected (or has no address) the balance is
\* 0 and the transaction list is empty, also after fetches started before
\* the disconnect have settled; a fetch started for another address than
\* the current one changes neither the balance nor the list.
C21_NoStaleWrite ==
  /\ [](Cleared => balance = 0 /\ transactions = <<>>)
  /\ [][ \A cy \in InFlight :
           (cy.addr # walletAddress
              /\ \/ \E answer \in BalanceAnswers : GetBalanceSettle(cy, answer)
                 \/ FetchTransactionsFinish(cy)) =>
             UNCHANGED <<balance, transactions>>
       ]_vars


\* ------------------------------------------------- claims on onboarding
\* C22: the Reset Onboarding button exists on the connected dashboard only;
\* when the removeItem call of resetOnboarding succeeds the stored flag is
\* absent, isFirstLaunch is true and the selected screen is 'onboarding';
\* from then on the onboarding screen is left only by going through
\* onboarding (the wallet connects, the timer of onComplete fires, or
\* markOnboardingComplete has saved the flag).
C22_ResetShowsOnboarding ==
  /\ [][ ResetOnboarding => (isConnected /\ currentScreen = "wallet") ]_vars
  /\ [][ \A k \in DOMAIN storageCalls :
           ResetOnboardingSettles(k, TRUE) =>
             /\ storage' = ""
             /\ isFirstLaunch' = "true"
             /\ currentScreen' = "onboarding"
       ]_vars
  /\ [][ (StatusChecked /\ isFirstLaunch = "true"
            /\ currentScreen = "onboarding" /\ currentScreen' # "onboarding") =>
           \/ ~isConnected /\ isConnected'
           \/ "wallet" \in navTimers /\ "wallet" \notin navTimers'
           \/ isFirstLaunch' = "false"
       ]_vars

\* --------------------------------------- claims on the loading flags
\* The submissions made by the mounted Send screen.
LiveSubmissions == {k \in DOMAIN submissions : submissions[k].live}

\* The signAndSendTransaction call of submission k has ended: onSuccess or
\* onFail was invoked, it threw, or its promise resolved.
CallEnded(k) ==
  \/ submissions[k].callback \in {"success", "fail"}
  \/ submissions[k].promise \in {"rejected", "resolved"}

\* C23: once the signAndSendTransaction call a confirmed send made has ended
\* (onSuccess invoked, onFail invoked, an error thrown, or the promise
\* resolved without a callback) and the screen has no other call running,
\* the loading flag of the Send screen is false again.
C23_SendLoadingReturns ==
  (LiveSubmissions # {} /\ \A k \in LiveSubmissions : CallEnded(k))
    => ~sendLoading

\* The signAndSendTransaction call of submission k is outstanding: it has
\* neither invoked onSuccess or onFail nor thrown.
Outstanding(k) ==
  /\ submissions[k].callback = "none"
  /\ submissions[k].promise # "rejected"

\* C24: a signAndSendTransaction call is never started while an earlier one
\* is outstanding.
C24_OneSubmissionOutstanding ==
  [][ Len(submissions') > Len(submissions) =>
        \A k \in DOMAIN submissions : ~Outstanding(k) ]_vars

\* ----------------------------------------------- claims on the startup
\* C25: when getItem answers or throws, checkUserStatus ends with
\* isCheckingExistingUser false and isFirstLaunch false if the call answered
\* 'true', true otherwise (the value absent, or the call threw); until then
\* the loading view is rendered, no button of another view can be pressed
\* and the selected screen stays as it is, whatever the wallet does; once
\* completed, the check stays completed.
C25_StartupCheck ==
  /\ [](~StatusChecked =>
          /\ Rendered = "loading"
          /\ PendingCalls("getItem") # {}
          /\ ~ENABLED HandleNext
          /\ ~ENABLED HandleLogin
          /\ ~ENABLED HandleSkip
          /\ ~ENABLED HandleConnect
          /\ ~ENABLED PromptNavigate)
  /\ [][ /\ \A k \in DOMAIN storageCalls : \A ok \in BOOLEAN :
              CheckUserStatusSettles(k, ok) =>
                /\ isCheckingExistingUser' = FALSE
                /\ (ok /\ storage = "true") => isFirstLaunch' = "false"
                /\ ~(ok /\ storage = "true") => isFirstLaunch' = "true"
                /\ PendingCalls("getItem")' = {}
         /\ (~StatusChecked /\ ~StatusChecked') => currentScreen' = currentScreen
         /\ StatusChecked => StatusChecked'
       ]_vars

\* The flag is stored but getItem threw: the check has completed, the user
\* is taken for a first-time user and the onboarding screen is selected.
C25_Witness ==
  /\ storage = "true"
  /\ storageCalls = <<>>
  /\ ~isCheckingExistingUser
  /\ isFirstLaunch = "true"
  /\ ~isConnected
  /\ currentScreen = "onboarding"
  /\ Rendered = "onboarding"

\* ------------------------------------------ claims on SignMessageScreen
\* The signMessage calls made by the mounted Sign Message screen.
LiveRequests == {k \in DOMAIN signRequests : signRequests[k].live}

\* The promise of request k settles in this step.
SettlesNow(k) ==
  /\ signRequests[k].promise = "pending"
  /\ Len(signRequests') = Len(signRequests)
  /\ signRequests'[k].promise # "pending"

\* The result res is delivered to request k in this step.
DeliversNow(k, res) ==
  \/ SignOnSuccess(k, res)
  \/ SignResolves(k, <<res>>)

\* C26: a press of Sign with an empty or all-blank message opens an alert
\* and makes no signMessage call; a press with a message (connected) sets
\* loading and makes one call with that message; loading is true only while
\* a call of the screen awaits its promise, and is false once the promise
\* has settled (resolved with a result, resolved without one, after onFail,
\* or rejected); showResult becomes true only in a step that delivers a
\* result, with signature and signedPayload taken from it.
C26_SigningFlow ==
  /\ [](/\ signLoading => \E k \in LiveRequests : signRequests[k].promise = "pending"
        /\ (\A k \in LiveRequests : signRequests[k].promise # "pending") => ~signLoading
        /\ signShowResult =>
             \E res \in SdkSignResults :
               signature = res.signature /\ signedPayload = res.signedPayload)
  /\ [][ /\ (HandleSign /\ RemoveSpace(message) = <<>>) =>
              /\ dialogs' = Append(dialogs,
                   [ title |-> "Error",
                     message |-> IF isConnected
                                 THEN "Please enter a message to sign"
                                 ELSE "Wallet not connected",
                     onSend |-> <<>> ])
              /\ UNCHANGED signVars
         /\ (HandleSign /\ RemoveSpace(message) # <<>> /\ isConnected) =>
              /\ ~signLoading /\ signLoading'
              /\ Len(signRequests') = Len(signRequests) + 1
              /\ signRequests'[Len(signRequests')].message = Join(message)
              /\ signRequests'[Len(signRequests')].promise = "pending"
              /\ UNCHANGED <<dialogs, signShowResult, signature, signedPayload>>
         /\ Len(signRequests') > Len(signRequests) =>
              /\ signLoading'
              /\ RemoveSpace(message) # <<>>
         /\ \A k \in LiveRequests : SettlesNow(k) => ~signLoading'
         /\ (~signShowResult /\ signShowResult') =>
              \E k \in LiveRequests : \E res \in SdkSignResults :
                /\ DeliversNow(k, res)
                /\ signature' = res.signature
                /\ signedPayload' = res.signedPayload
       ]_vars

\* The SDK invoked onFail and then rejected the promise of the only request:
\* both alerts are open, loading is false again, no result is shown.
C26_Witness ==
  /\ Rendered = "sign"
  /\ Len(signRequests) = 1
  /\ signRequests[1].live
  /\ signRequests[1].callback = "fail"
  /\ signRequests[1].promise = "rejected"
  /\ Len(dialogs) = 2
  /\ ~signLoading
  /\ ~signShowResult
  /\ signature = ""

\* The state the screen is left in by a signing that succeeded with res.
SignedState(res) ==
  /\ signature = res.signature
  /\ signedPayload = res.signedPayload
  /\ signShowResult
  /\ ~signLoading

\* The user has pressed neither Back nor Done since the screen was opened.
SignScreenStays == Rendered = "sign" /\ navTimers = {}

\* C27: a result delivered through onSuccess (the promise then resolving
\* without a value), as the value of the promise, or both ways in either
\* order, leaves the screen with signature and signedPayload of the result,
\* showResult true and loading false once every call of the screen has
\* settled; a second delivery of the result changes nothing.
C27_CallbackOrPromise ==
  /\ [](\A k \in LiveRequests :
          (SignScreenStays /\ signRequests[k].callback = "success"
             /\ \A j \in LiveRequests : signRequests[j].promise = "resolved") =>
            \E res \in SdkSignResults : SignedState(res))
  /\ [][ \A k \in LiveRequests : \A res \in SdkSignResults :
           /\ (SignScreenStays /\ SignResolves(k, <<res>>)) => SignedState(res)'
           /\ (SignScreenStays /\ SignOnSuccess(k, res)) =>
                /\ signature' = res.signature
                /\ signedPayload' = res.signedPayload
                /\ signShowResult'
                /\ UNCHANGED signLoading
           /\ (SignScreenStays /\ SignedState(res) /\ DeliversNow(k, res)) =>
                UNCHANGED signState
       ]_vars

\* The result arrived as the value of the promise only: onSuccess was not
\* invoked, the modal shows the signature, loading is false.
C27_Witness ==
  /\ SignScreenStays
  /\ Len(signRequests) = 1
  /\ signRequests[1].live
  /\ signRequests[1].callback = "none"
  /\ signRequests[1].promise = "resolved"
  /\ \E res \in SdkSignResults : SignedState(res)

\* ------------------------------------------- claims on the history flag
\* C28: with a wallet whose address is a public key (or absent),
\* loadingTransactions is true exactly while a fetchTransactions call (of
\* the load on connect or of a manual refresh) awaits an RPC answer.
C28_HistoryLoadingFlag ==
  (walletAddress = NoAddress \/ IsPublicKey(walletAddress)) =>
    (loadingTransactions <=> \E cy \in InFlight : HistoryPending(cy))

\* ------------------------------------------- claims on the entry types
\* The entry comes from one branch of the classifier: its type, title and
\* amount are those of the sign, the receive or the send branch.
FromOneBranch(e) ==
  \/ /\ e.type = "sign"
     /\ e.title = "Message Signed"
     /\ e.amount = "No transfer"
  \/ /\ e.type = "receive"
     /\ e.title = "Received SOL"
     /\ Len(e.amount) > 5 /\ SubSeq(e.amount, 1, 1) = "+"
  \/ /\ e.type = "send"
     /\ e.title = "Sent SOL"
     /\ Len(e.amount) > 5 /\ SubSeq(e.amount, 1, 1) = "-"

\* C29: every entry of the transaction list has the type, title and amount
\* of exactly one of the branches sign, receive and send; no entry keeps an
\* initial value ('other', 'Transaction', '0 SOL'), and getTransactionIcon
\* never takes its default case; for every pair of lamport balances the
\* chain of tests selects one of the three types.
C29_TypesExhaustive ==
  /\ \A k \in DOMAIN transactions :
       /\ transactions[k].type \in {"send", "receive", "sign"}
       /\ transactions[k].type # "other"
       /\ transactions[k].title # "Transaction"
       /\ transactions[k].amount # "0 SOL"
       /\ FromOneBranch(transactions[k])
       /\ TransactionIconCase(transactions[k].type) # "default"
  /\ \A pre \in LamportValues : \A post \in LamportValues :
       LET d == DivLamports(post - pre) IN
         /\ TransactionType(d) \in {"send", "receive", "sign"}
         /\ TransactionType(d) = "sign" <=> Abs(post - pre) < 1000
         /\ TransactionType(d) = "receive" <=> post - pre >= 1000
         /\ TransactionType(d) = "send" <=> post - pre <= -1000

\* A change of exactly 1000 lamports, the edge of the dead zone, is listed
\* as a receive of '+0.0000 SOL'.
C29_Witness ==
  /\ Len(transactions) = 1
  /\ chain.transactions["S1"].preBalances = <<5000, 0>>
  /\ chain.transactions["S1"].postBalances = <<5000, 1000>>
  /\ transactions[1].type = "receive"
  /\ transactions[1].title = "Received SOL"
  /\ transactions[1].amount = "+0.0000 SOL"

\* -------------------------------------------- claims on the onboarding
\* OnboardingScreen is on screen.
OnboardingMounted == Rendered = "onboarding"

\* C30: the onboarding step is always one of 0..3; Next on a step below 3
\* moves to the next step and calls nothing; Next on step 3 keeps the step,
\* records 'create' and calls connect; Skip sets the step to 3; a scroll
\* event sets the step to its page if that is one of 0..3 and leaves it
\* alone otherwise; markOnboardingComplete and the navigation to 'wallet'
\* (onComplete) are started by the onSuccess callback of the screen's
\* connect call and by nothing else of the screen.
C30_StepMachine ==
  /\ [](currentStep \in 0 .. 3)
  /\ [][ /\ (HandleNext /\ currentStep < 3) =>
              /\ currentStep' = currentStep + 1
              /\ UNCHANGED <<connectCalls, actionType, storageCalls, navTimers>>
         /\ (HandleNext /\ currentStep = 3) =>
              /\ currentStep' = 3
              /\ actionType' = "create"
              /\ connectCalls' = Append(connectCalls,
                                        [ caller |-> "handleCreateWallet" ])
              /\ UNCHANGED <<storageCalls, navTimers>>
         /\ HandleSkip => currentStep' = 3 /\ UNCHANGED connectCalls
         /\ \A step \in ScrollSteps : HandleScroll(step) =>
              /\ currentStep' \in 0 .. 3
              /\ currentStep' \in {step, currentStep}
              /\ step \in 0 .. 3 => currentStep' = step
              /\ UNCHANGED connectCalls
         /\ (OnboardingMounted /\ PendingCalls("setItem")' # PendingCalls("setItem")
                /\ Len(storageCalls') > Len(storageCalls)) =>
              /\ "handleCreateWallet" \in PendingCallers
              /\ \E k \in DOMAIN connectCalls : SdkCallOnSuccess(k)
              /\ "wallet" \in navTimers'
       ]_vars

\* The user has swiped from the last page back to the second one while the
\* connect call of Create Account awaits its callback.
C30_Witness ==
  /\ OnboardingMounted
  /\ currentStep = 1
  /\ actionType = "create"
  /\ PendingCallers = {"handleCreateWallet"}

====
